---------------------------- MODULE Spec2Model ----------------------------
(***************************************************************************)
(* A model of the TikTok Ads campaign agent: the business-rule validators  *)
(* (validators.py, config.py), the OAuth credential manager                *)
(* (oauth_manager.py), the API client (api_client.py, mock_api.py) and the *)
(* conversation driver (agent.py).                                         *)
(*                                                                         *)
(* Python values are modelled as follows.  A str is a TLA+ string; None is *)
(* the marker None, which no modelled string equals; a dict is a record    *)
(* whose domain is the dict's key set; a list is a sequence.  Time is a    *)
(* natural number of seconds.                                              *)
(***************************************************************************)
EXTENDS Integers, Sequences, FiniteSets, TLC

VARIABLES
    campaign_data,          \* TikTokAdsAgent.campaign_data
    conversation_history,   \* TikTokAdsAgent.conversation_history
    credentials,            \* TikTokOAuthManager.credentials (None or a dict)
    credentials_file,       \* the file Config.CREDENTIALS_FILE
    use_mock,               \* the use_mock flag of manager, client and agent
    mock_access_token,      \* MockTikTokAPI.access_token (process-global)
    uploaded_music,         \* MockTikTokAPI.uploaded_music (file path -> music id)
    callback,               \* start_oauth_callback_server: its locals and position
    now,                    \* datetime.now(), in seconds
    ticks,                  \* how many times the clock has advanced
    turns,                  \* how many conversation turns were taken
    running,                \* FALSE once an exception has ended the process
    ret                     \* what the last operation did and returned

vars == <<campaign_data, conversation_history, credentials, credentials_file,
          use_mock, mock_access_token, uploaded_music, callback, now, ticks,
          turns, running, ret>>

agentVars == <<campaign_data, conversation_history, turns>>
tokenVars == <<credentials, credentials_file, mock_access_token>>

-----------------------------------------------------------------------------
(* Python values *)

None == "<None>"

\* Python truthiness of an Optional[str]: `if not x` is taken for None and "".
Truthy(v) == v # None /\ v # ""

\* dict.get(key, default)
Get(d, k, default) == IF k \in DOMAIN d THEN d[k] ELSE default

\* str.startswith(prefix)
StartsWith(s, prefix) ==
    /\ Len(s) >= Len(prefix)
    /\ SubSeq(s, 1, Len(prefix)) = prefix

\* The characters str.strip() removes, of those a string here can hold: the
\* space, \t, \n, \r, \f, the vertical tab \x0b, the separators \x1c to
\* \x1f, the next line U+0085, the no-break space U+00A0 and the ogham space
\* U+1680.
VT == ""
FS == ""
GS == ""
RS == ""
US == ""
NEL == ""
NBSP == " "
OGHAM_SPACE == " "
Whitespace ==
    {" ", "\t", "\n", "\r", "\f", VT, FS, GS, RS, US, NEL, NBSP, OGHAM_SPACE}

RECURSIVE lstrip(_)
lstrip(s) ==
    IF Len(s) > 0 /\ SubSeq(s, 1, 1) \in Whitespace THEN lstrip(Tail(s)) ELSE s

RECURSIVE rstrip(_)
rstrip(s) ==
    IF Len(s) > 0 /\ SubSeq(s, Len(s), Len(s)) \in Whitespace
    THEN rstrip(SubSeq(s, 1, Len(s) - 1))
    ELSE s

\* str.strip()
strip(s) == rstrip(lstrip(s))

\* "a" * n
RECURSIVE Repeat(_, _)
Repeat(c, n) == IF n = 0 THEN "" ELSE c \o Repeat(c, n - 1)

\* ", ".join(list)
RECURSIVE Join(_)
Join(l) ==
    IF Len(l) = 0 THEN ""
    ELSE IF Len(l) = 1 THEN l[1]
    ELSE l[1] \o ", " \o Join(Tail(l))

\* The elements of a list.
Range(l) == {l[i] : i \in 1..Len(l)}

-----------------------------------------------------------------------------
(* config.py: BusinessRules *)

CAMPAIGN_NAME_MIN_LENGTH == 3
AD_TEXT_MAX_LENGTH == 100
VALID_OBJECTIVES == <<"Traffic", "Conversions">>
VALID_CTAS == <<"LEARN_MORE", "SHOP_NOW", "SIGN_UP", "DOWNLOAD", "BOOK_NOW",
                "CONTACT_US", "GET_QUOTE", "APPLY_NOW", "WATCH_MORE">>
MUSIC_REQUIRED_FOR == <<"Conversions">>
MUSIC_OPTIONAL_FOR == <<"Traffic">>

requires_music(objective) == objective \in Range(MUSIC_REQUIRED_FOR)
allows_no_music(objective) == objective \in Range(MUSIC_OPTIONAL_FOR)

-----------------------------------------------------------------------------
(* validators.py: CampaignValidator.  A validator returns None or a        *)
(* ValidationError, a record of field, message and suggestion.             *)

ValidationError(field, message, suggestion) ==
    [field |-> field, message |-> message, suggestion |-> suggestion]

NoError == [field |-> None]

\* A name rule that measures the name as typed, blanks included.
validate_campaign_name_untrimmed(name) ==
    IF ~Truthy(name)
    THEN ValidationError("campaign_name", "Campaign name is required",
                         "Please provide a name for your campaign")
    ELSE IF Len(name) < CAMPAIGN_NAME_MIN_LENGTH
    THEN ValidationError("campaign_name", "Campaign name is too short", "")
    ELSE NoError

validate_campaign_name(name) ==
    IF ~Truthy(name)
    THEN ValidationError("campaign_name", "Campaign name is required",
                         "Please provide a name for your campaign")
    ELSE IF Len(strip(name)) < CAMPAIGN_NAME_MIN_LENGTH
    THEN ValidationError("campaign_name",
            "Campaign name must be at least "
                \o ToString(CAMPAIGN_NAME_MIN_LENGTH) \o " characters",
            "Current length: " \o ToString(Len(strip(name))) \o " characters")
    ELSE NoError

validate_objective(objective) ==
    IF ~Truthy(objective)
    THEN ValidationError("objective", "Campaign objective is required",
                         "Choose either: " \o Join(VALID_OBJECTIVES))
    ELSE IF objective \notin Range(VALID_OBJECTIVES)
    THEN ValidationError("objective", "Invalid objective: " \o objective,
                         "Must be one of: " \o Join(VALID_OBJECTIVES))
    ELSE NoError

\* An ad text rule whose limit is exclusive.
validate_ad_text_exclusive(text) ==
    IF ~Truthy(text)
    THEN ValidationError("ad_text", "Ad text is required",
                         "Please provide text for your ad")
    ELSE IF Len(text) >= AD_TEXT_MAX_LENGTH
    THEN ValidationError("ad_text", "Ad text exceeds maximum length", "")
    ELSE NoError

validate_ad_text(text) ==
    IF ~Truthy(text)
    THEN ValidationError("ad_text", "Ad text is required",
                         "Please provide text for your ad")
    ELSE IF Len(text) > AD_TEXT_MAX_LENGTH
    THEN ValidationError("ad_text",
            "Ad text exceeds maximum length of "
                \o ToString(AD_TEXT_MAX_LENGTH) \o " characters",
            "Current length: " \o ToString(Len(text))
                \o " characters. Please shorten by "
                \o ToString(Len(text) - AD_TEXT_MAX_LENGTH) \o " characters.")
    ELSE NoError

validate_cta(cta) ==
    IF ~Truthy(cta)
    THEN ValidationError("cta", "CTA (Call to Action) is required",
                         "Choose one of: " \o Join(VALID_CTAS))
    ELSE IF cta \notin Range(VALID_CTAS)
    THEN ValidationError("cta", "Invalid CTA: " \o cta,
                         "Must be one of: " \o Join(VALID_CTAS))
    ELSE NoError

\* A music rule that asks every objective for music.
validate_music_logic_any_objective(objective, music_id) ==
    IF ~Truthy(objective)
    THEN NoError
    ELSE IF ~Truthy(music_id)
    THEN ValidationError("music_id", objective \o " campaigns require music", "")
    ELSE NoError

\* A music rule that is evaluated without an objective too.
validate_music_logic_unskipped(objective, music_id) ==
    IF (~Truthy(objective) \/ requires_music(objective)) /\ ~Truthy(music_id)
    THEN ValidationError("music_id", objective \o " campaigns require music", "")
    ELSE NoError

validate_music_logic(objective, music_id) ==
    IF ~Truthy(objective)
    THEN NoError
    ELSE IF requires_music(objective) /\ ~Truthy(music_id)
    THEN ValidationError("music_id", objective \o " campaigns require music",
            "Please provide a Music ID or upload custom music. Alternatively, change objective to Traffic.")
    ELSE NoError

\* errors.append(error) under `if error:`
AppendIf(errors, error) ==
    IF error # NoError THEN Append(errors, error) ELSE errors

\* A validate_all that checks the cta before the other fields.
validate_all_cta_first(data) ==
    LET e1 == AppendIf(<<>>, validate_cta(Get(data, "cta", None)))
        e2 == AppendIf(e1, validate_campaign_name(Get(data, "campaign_name", None)))
        e3 == AppendIf(e2, validate_objective(Get(data, "objective", None)))
        e4 == AppendIf(e3, validate_ad_text(Get(data, "ad_text", None)))
        e5 == AppendIf(e4, validate_music_logic(Get(data, "objective", None),
                                                Get(data, "music_id", None)))
    IN  e5

validate_all(data) ==
    LET e1 == AppendIf(<<>>, validate_campaign_name(Get(data, "campaign_name", None)))
        e2 == AppendIf(e1, validate_objective(Get(data, "objective", None)))
        e3 == AppendIf(e2, validate_ad_text(Get(data, "ad_text", None)))
        e4 == AppendIf(e3, validate_cta(Get(data, "cta", None)))
        e5 == AppendIf(e4, validate_music_logic(Get(data, "objective", None),
                                                Get(data, "music_id", None)))
    IN  e5

required_fields == <<"campaign_name", "objective", "ad_text", "cta">>

\* An is_complete that only looks for None.
is_complete_not_none(data) ==
    IF \E i \in 1..Len(required_fields) : Get(data, required_fields[i], None) = None
    THEN FALSE
    ELSE IF requires_music(Get(data, "objective", None))
            /\ Get(data, "music_id", None) = None
    THEN FALSE
    ELSE TRUE

is_complete(data) ==
    IF \E i \in 1..Len(required_fields) : ~Truthy(Get(data, required_fields[i], None))
    THEN FALSE
    ELSE IF requires_music(Get(data, "objective", None))
            /\ ~Truthy(Get(data, "music_id", None))
    THEN FALSE
    ELSE TRUE

-----------------------------------------------------------------------------
(* Python values, continued *)

\* None where a dict is expected (a string and a record cannot be compared).
NoDict == [is_none |-> TRUE]

\* dict.update(other)
Update(d, u) ==
    [k \in (DOMAIN d) \cup (DOMAIN u) |-> IF k \in DOMAIN u THEN u[k] ELSE d[k]]

\* The characters of a text, and the place of one of them.
Chars(s) == {SubSeq(s, i, i) : i \in 1..Len(s)}
IndexOf(s, c) == CHOOSE i \in 1..Len(s) : SubSeq(s, i, i) = c

\* The letters str.lower() changes and, at the same place, what each becomes.
\* The capital sigma is not among them: what it becomes depends on its
\* place in the word.
UPPERCASE ==
    "ABCDEFGHIJKLMNOPQRSTUVWXYZÀÁÂÃÄÅÆÇÈÉÊËÌÍÎÏÐÑÒÓÔÕÖØÙÚÛÜÝÞƂƄƇƋƎƑƘƠ"
    \o "ƢƤƦƧƩƬƮƯƱƲƳƵƷƸƼǄǅǇǈǊǋǍǏǑǓǕǗǙǛǞǠǢǤǦǨǪǬǮǱǲǴǶǷǸǺǼǾΆΈΉΊΌΎΏΑΒΓΔΕΖΗΘΙΚ"
    \o "ΛΜΝΞΟΠΡΤΥΦΧΨΩΪΫϏϘϚϜϞϠϢϤϦϨϪϬϮϴϷϹϺҀҊҌҎҐҒҔҖҘҚҜҞҠҢҤҦҨҪҬҮҰҲҴҶҸҺҼҾӀӁӃӅ"
    \o "ӇӉӋӍӐӒӔӖӘӚӜӞӠӢӤӦӨӪӬӮӰӲӴӶӸӺӼӾᎰᎱᎲᎳᎴᎵᎶᎷᎸᎹᎺᎻᎼᎽᎾᎿᏀᏁᏂᏃᏄᏅᏆᏇᏈᏉᏊᏋᏌᏍᏎᏏᏐᏑᏒᏓ"
    \o "ᏔᏕᏖᏗᏘᏙᏚᏛᏜᏝᏞᏟᏠᏡᏢᏣᏤᏥᏦᏧᏨᏩᏪᏫᏬᏭᏮᏯᏰᏱᏲᏳᏴᏵᲐᲑᲒᲓᲔᲕᲖᲗᲘᲙᲚᲛᲜᲝᲞᲟᲠᲡᲢᲣᲤᲥᲦᲧᲨᲩᲪᲫᲬᲭ"
    \o "ᲮᲯᲰᲱᲲᲳᲴᲵᲶᲷᲸᲹᲺᲽᲾᲿẀẂẄẆẈẊẌẎẐẒẔẞẠẢẤẦẨẪẬẮẰẲẴẶẸẺẼẾỀỂỄỆỈỊỌỎỐỒỔỖỘỚỜỞỠỢỤỦ"
    \o "ỨỪỬỮỰỲỴỶỸỺỼỾᾈᾉᾊᾋᾌᾍᾎᾏᾘᾙᾚᾛᾜᾝᾞᾟᾨᾩᾪᾫᾬᾭᾮᾯᾸᾹᾼῌῘῙῨῩῬῼↃⒶⒷⒸⒹⒺⒻⒼⒽⒾⒿⓀⓁⓂⓃⓄⓅⓆ"
    \o "ⓇⓈⓉⓊⓋⓌⓍⓎⓏⲀⲂⲄⲆⲈⲊⲌⲎⲐⲒⲔⲖⲘⲚⲜⲞⲠⲢⲤⲦⲨⲪⲬⲮⲰⲲⲴⲶⲸⲺⲼⲾⳀⳂⳄⳆⳈⳊⳌⳎⳐⳒⳔⳖⳘⳚⳜⳞⳠⳢⳫⳭⳲꚀꚂ"
    \o "ꚄꚆꚈꚊꚌꚎꚐꚒꚔꚖꚘꚚꞀꞂꞄꞆꞋꞐꞒꞖꞘꞚꞜꞞꞠꞢꞤꞦꞨꞰꞱꞲꞴꞶꞸꞺꞼꞾꟀꟂꟄꟅꟆꟇꟉꟐꟖꟘꟵ"

LOWERCASE ==
    "abcdefghijklmnopqrstuvwxyzàáâãäåæçèéêëìíîïðñòóôõöøùúûüýþƃƅƈƌǝƒƙơ"
    \o "ƣƥʀƨʃƭʈưʊʋƴƶʒƹƽǆǆǉǉǌǌǎǐǒǔǖǘǚǜǟǡǣǥǧǩǫǭǯǳǳǵƕƿǹǻǽǿάέήίόύώαβγδεζηθικ"
    \o "λμνξοπρτυφχψωϊϋϗϙϛϝϟϡϣϥϧϩϫϭϯθϸϲϻҁҋҍҏґғҕҗҙқҝҟҡңҥҧҩҫҭүұҳҵҷҹһҽҿӏӂӄӆ"
    \o "ӈӊӌӎӑӓӕӗәӛӝӟӡӣӥӧөӫӭӯӱӳӵӷӹӻӽӿꮀꮁꮂꮃꮄꮅꮆꮇꮈꮉꮊꮋꮌꮍꮎꮏꮐꮑꮒꮓꮔꮕꮖꮗꮘꮙꮚꮛꮜꮝꮞꮟꮠꮡꮢꮣ"
    \o "ꮤꮥꮦꮧꮨꮩꮪꮫꮬꮭꮮꮯꮰꮱꮲꮳꮴꮵꮶꮷꮸꮹꮺꮻꮼꮽꮾꮿᏸᏹᏺᏻᏼᏽაბგდევზთიკლმნოპჟრსტუფქღყშჩცძწჭ"
    \o "ხჯჰჱჲჳჴჵჶჷჸჹჺჽჾჿẁẃẅẇẉẋẍẏẑẓẕßạảấầẩẫậắằẳẵặẹẻẽếềểễệỉịọỏốồổỗộớờởỡợụủ"
    \o "ứừửữựỳỵỷỹỻỽỿᾀᾁᾂᾃᾄᾅᾆᾇᾐᾑᾒᾓᾔᾕᾖᾗᾠᾡᾢᾣᾤᾥᾦᾧᾰᾱᾳῃῐῑῠῡῥῳↄⓐⓑⓒⓓⓔⓕⓖⓗⓘⓙⓚⓛⓜⓝⓞⓟⓠ"
    \o "ⓡⓢⓣⓤⓥⓦⓧⓨⓩⲁⲃⲅⲇⲉⲋⲍⲏⲑⲓⲕⲗⲙⲛⲝⲟⲡⲣⲥⲧⲩⲫⲭⲯⲱⲳⲵⲷⲹⲻⲽⲿⳁⳃⳅⳇⳉⳋⳍⳏⳑⳓⳕⳗⳙⳛⳝⳟⳡⳣⳬⳮⳳꚁꚃ"
    \o "ꚅꚇꚉꚋꚍꚏꚑꚓꚕꚗꚙꚛꞁꞃꞅꞇꞌꞑꞓꞗꞙꞛꞝꞟꞡꞣꞥꞧꞩʞʇʝꞵꞷꞹꞻꞽꞿꟁꟃꞔʂᶎꟈꟊꟑꟗꟙꟶ"

UpperCased == Chars(UPPERCASE)
LowerCaseOf ==
    [c \in UpperCased |->
        SubSeq(LOWERCASE, IndexOf(UPPERCASE, c), IndexOf(UPPERCASE, c))]

\* The capitals that str.lower() turns into a letter no string of this module
\* can hold (U+0181 becomes U+0253, the Georgian and Cherokee capitals their
\* small letters).  lower has no value on a text that holds one of them.
OTHER_CAPITALS ==
    "ƁƆƉƊƏƐƓƔƖƗƜƝƟϽϾϿႠႡႢႣႤႥႦႧႨႩႪႫႬႭႮႯႰႱႲႳႴႵႶႷႸႹႺႻႼႽႾႿჀჁჂჃჄჅჇჍᎠᎡᎢᎣᎤᎥᎦᎧ"
    \o "ᎨᎩᎪᎫᎬᎭᎮᎯᾺΆῈΈῊΉῚΊῪΎῸΌῺΏꞍꞪꞫꞬꞭꞮꞳ"
OtherCapitals == Chars(OTHER_CAPITALS)

LowerChar(c) == IF c \in UpperCased \cup OtherCapitals THEN LowerCaseOf[c] ELSE c

CAPITAL_SIGMA == "Σ"
SMALL_SIGMA == "σ"
FINAL_SIGMA == "ς"

\* The characters a word's end is looked for across (accents, apostrophes,
\* full stops and the like), and the cased letters that are none of these.
CASE_IGNORABLE ==
    "'.:^¨­¯´·¸ʰʱʲʳʴʵʶʷʸʹʺʻʼʽʾʿˀˁ˂˃˄˅ˆˇˈˉˊˋˌˍˎˏːˑ˒˓˔˕˖˗˘˙˚˛˜˝˞˟ˠˡˢˣˤ˥"
    \o "˦˧˨˩˪˫ˬ˭ˮ˯˰˱˲˳˴˵˶˷˸˹˺˻˼˽˾˿΄΅·҃҄҅҆҇҈҉֑֖֛֢֣֤֥֦֧֪֚֒֓֔֕֗֘֙֜֝֞֟֠֡֨֩֫֬"
    \o "ְֱֲֳִֵֶַָׇֹֺֻּֽֿׁׂׅ֭֮֯ׄ״ۖۗۘۙۚۛۜ۝ۣ۟۠ۡۢۤۥۦ۪ۭۧۨ۫۬ަާިީުޫެޭޮޯް߫߬߭߮߯߰߱"
    \o "߲߳ߴߵߺ߽࢈࢐࢑࢙࢚࢛࢘࢜࢝࢞࢟ࣉ࣏࣐࣑࣒࣓࣊࣋࣌࣍࣎ࣔࣕࣖࣗࣘࣙࣚࣛࣜࣝࣞࣟ࣠࣡࣢ࣰࣱࣲࣣࣦࣩ࣭࣮࣯ࣶࣤࣥࣧࣨ࣪࣫࣬ࣳࣴࣵࣷ"
    \o "ࣹࣺࣸࣻࣼࣽࣾࣿঁ়ুূৃৄ্ৢৣ৾ઁં઼ુૂૃૄૅેૈ્ૢૣૺૻૼ૽૾૿ஂீ்ಁ಼ಿೆೌ್ೢೣඁ්ිීුූັິີຶື຺ຸູົຼ"
    \o "ໆ່້໊໋໌ໍ྄ཱྀྀྂྃ྆྇ྍྎྏྐྑྒྒྷྔྕྖྗྙྚྛྜྜྷྞྟྠྡྡྷྣྤྥྦྦྷྨྩྪྫྫྷྭྮྯྰྱྲླྴྵྶྷྸྐྵྺྻྼ࿆ႂႅ"
    \o "ႆႍႝჼ឴឵ិីឹឺុូួំ៉៊់៌៍៎៏័៑្៓ៗ៝ᢅᢆᢩᪧ᪵᪶᪷᪸᪹᪺᪽᪰᪱᪲᪳᪴᪻᪼᪾ᪿᫀ᫃᫄᫊᫁᫂᫅᫆᫇᫈᫉᫋ᫌᫍᫎᮀᮁ"
    \o "ᮢᮣᮤᮥᮨᮩ᮫ᮬᮭ᯦ᯨᯩᯭᯯᯰᯱ᳔᳢᳣᳤᳥᳦᳧᳨᳕᳖᳗᳘᳙᳜᳝᳞᳟᳭᳐᳑᳒᳚᳛᳠᳴᳸᳹ᶛᶜᶝᶞᶟᶠᶡᶢᶣᶤᶥᶦᶧᶨᶩᶪᶫᶬᶭᶮᶯ"
    \o "ᶰᶱᶲᶳᶴᶵᶶᶷᶸᶹᶺᶻᶼᶽᶾᶿ᷐᷎᷂᷊᷏᷀᷁᷃᷄᷅᷆᷇᷈᷉᷋᷌᷑᷒ᷓᷔᷕᷖᷗᷘᷙᷚᷛᷜᷝᷞᷟᷠᷡᷢᷣᷤᷥᷦᷧᷨᷩᷪᷫᷬᷭᷮᷯ᷍"
    \o "᷺᷹᷽᷿᷷᷸ᷰᷱᷲᷳᷴ᷵᷻᷾᷶᷼᾽᾿῀῁῍῎῏῝῞῟῭΅`´῾ₐₑₒₓₔₕₖₗₘₙₚₛₜ⃒⃓⃘⃙⃚⃐⃑⃔⃕⃖⃗⃛⃜⃝⃞⃟⃠⃡⃢⃣"
    \o "⃤⃥⃦⃪⃫゙゚⃨⃬⃭⃮⃯⃧⃩⃰⳯⳰⳱ⷠⷡⷢⷣⷤⷥⷦⷧⷨⷩⷪⷫⷬⷭⷮⷯⷰⷱⷲⷳⷴⷵⷶⷷⷸⷹⷺⷻⷼⷽⷾⷿ゛゜ゝゞーヽヾꓸꓹꓺꓻꓼꓽꚜ"
    \o "ꚝꚞꚟ꛰꛱ꞈ꞉꞊ꟲꟳꟴꟸꟹ꣄ꣅ꣠꣡꣢꣣꣤꣥꣦꣧꣨꣩꣪꣫꣬꣭꣮꣯꣰꣱ꣿꦀꦁꦂ꦳ꦶꦷꦸꦹꦼꦽꧏꧥꧦꪴꪰꪲꪳꪷꪸꪾ꪿꫁ꫝꫬꫭꫳꫴ꫶ꯥꯨ"
    \o "꯭﮲﮳﮴﮵﮶﮷﮸﮹﮺﮻﮼﮽﮾﮿﯀﯁﯂﻿ﾞﾟ￣￹￺￻"

CASED ==
    "ABCDEFGHIJKLMNOPQRSTUVWXYZabcdefghijklmnopqrstuvwxyzªµºÀÁÂÃÄÅÆÇÈ"
    \o "ÉÊËÌÍÎÏÐÑÒÓÔÕÖØÙÚÛÜÝÞßàáâãäåæçèéêëìíîïðñòóôõöøùúûüýþÿƀƁƂƃƄƅƆƇƈƉƊ"
    \o "ƋƌƍƎƏƐƑƒƓƔƕƖƗƘƙƚƛƜƝƞƟƠơƢƣƤƥƦƧƨƩƪƫƬƭƮƯưƱƲƳƴƵƶƷƸƹƺƼƽƾƿǄǅǆǇǈǉǊǋǌǍǎǏ"
    \o "ǐǑǒǓǔǕǖǗǘǙǚǛǜǝǞǟǠǡǢǣǤǥǦǧǨǩǪǫǬǭǮǯǰǱǲǳǴǵǶǷǸǹǺǻǼǽǾǿʀʁʂʃʄʅʆʇʈʉʊʋʌʍʎʏ"
    \o "ʐʑʒʓʕʖʗʘʙʚʛʜʝʞʟʠʡʢʣʤʥʦʧʨʩʪʫʬʭʮʯΆΈΉΊΌΎΏΐΑΒΓΔΕΖΗΘΙΚΛΜΝΞΟΠΡΣΤΥΦΧΨΩΪ"
    \o "ΫάέήίΰαβγδεζηθικλμνξοπρςστυφχψωϊϋόύώϏϐϑϒϓϔϕϖϗϘϙϚϛϜϝϞϟϠϡϢϣϤϥϦϧϨϩϪ"
    \o "ϫϬϭϮϯϰϱϲϳϴϵϷϸϹϺϻϼϽϾϿҀҁҊҋҌҍҎҏҐґҒғҔҕҖҗҘҙҚқҜҝҞҟҠҡҢңҤҥҦҧҨҩҪҫҬҭҮүҰұҲҳ"
    \o "ҴҵҶҷҸҹҺһҼҽҾҿӀӁӂӃӄӅӆӇӈӉӊӋӌӍӎӏӐӑӒӓӔӕӖӗӘәӚӛӜӝӞӟӠӡӢӣӤӥӦӧӨөӪӫӬӭӮӯӰӱӲӳ"
    \o "ӴӵӶӷӸӹӺӻӼӽӾӿրցւփքօֆևֈႠႡႢႣႤႥႦႧႨႩႪႫႬႭႮႯႰႱႲႳႴႵႶႷႸႹႺႻႼႽႾႿჀჁჂჃჄჅჇჍაბგ"
    \o "დევზთიკლმნოპჟრსტუფქღყშჩცძწჭხჯჰჱჲჳჴჵჶჷჸჹჺჽჾჿᎠᎡᎢᎣᎤᎥᎦᎧᎨᎩᎪᎫᎬᎭᎮᎯᎰᎱᎲᎳᎴ"
    \o "ᎵᎶᎷᎸᎹᎺᎻᎼᎽᎾᎿᏀᏁᏂᏃᏄᏅᏆᏇᏈᏉᏊᏋᏌᏍᏎᏏᏐᏑᏒᏓᏔᏕᏖᏗᏘᏙᏚᏛᏜᏝᏞᏟᏠᏡᏢᏣᏤᏥᏦᏧᏨᏩᏪᏫᏬᏭᏮᏯᏰᏱᏲᏳᏴ"
    \o "ᏵᏸᏹᏺᏻᏼᏽᲀᲁᲂᲃᲄᲅᲆᲇᲈᲐᲑᲒᲓᲔᲕᲖᲗᲘᲙᲚᲛᲜᲝᲞᲟᲠᲡᲢᲣᲤᲥᲦᲧᲨᲩᲪᲫᲬᲭᲮᲯᲰᲱᲲᲳᲴᲵᲶᲷᲸᲹᲺᲽᲾᲿᶀᶁ"
    \o "ᶂᶃᶄᶅᶆᶇᶈᶉᶊᶋᶌᶍᶎᶏᶐᶑᶒᶓᶔᶕᶖᶗᶘᶙᶚẀẁẂẃẄẅẆẇẈẉẊẋẌẍẎẏẐẑẒẓẔẕẖẗẘẙẚẛẜẝẞẟẠạẢảẤấẦ"
    \o "ầẨẩẪẫẬậẮắẰằẲẳẴẵẶặẸẹẺẻẼẽẾếỀềỂểỄễỆệỈỉỊịỌọỎỏỐốỒồỔổỖỗỘộỚớỜờỞởỠỡỢợỤụỦ"
    \o "ủỨứỪừỬửỮữỰựỲỳỴỵỶỷỸỹỺỻỼỽỾỿᾀᾁᾂᾃᾄᾅᾆᾇᾈᾉᾊᾋᾌᾍᾎᾏᾐᾑᾒᾓᾔᾕᾖᾗᾘᾙᾚᾛᾜᾝᾞᾟᾠᾡᾢᾣᾤᾥᾦ"
    \o "ᾧᾨᾩᾪᾫᾬᾭᾮᾯᾰᾱᾲᾳᾴᾶᾷᾸᾹᾺΆᾼιῂῃῄῆῇῈΈῊΉῌῐῑῒΐῖῗῘῙῚΊῠῡῢΰῤῥῦῧῨῩῪΎῬῲῳῴῶῷῸΌῺΏ"
    \o "ῼↃↄⒶⒷⒸⒹⒺⒻⒼⒽⒾⒿⓀⓁⓂⓃⓄⓅⓆⓇⓈⓉⓊⓋⓌⓍⓎⓏⓐⓑⓒⓓⓔⓕⓖⓗⓘⓙⓚⓛⓜⓝⓞⓟⓠⓡⓢⓣⓤⓥⓦⓧⓨⓩⲀⲁⲂⲃⲄⲅⲆⲇⲈ"
    \o "ⲉⲊⲋⲌⲍⲎⲏⲐⲑⲒⲓⲔⲕⲖⲗⲘⲙⲚⲛⲜⲝⲞⲟⲠⲡⲢⲣⲤⲥⲦⲧⲨⲩⲪⲫⲬⲭⲮⲯⲰⲱⲲⲳⲴⲵⲶⲷⲸⲹⲺⲻⲼⲽⲾⲿⳀⳁⳂⳃⳄⳅⳆⳇⳈ"
    \o "ⳉⳊⳋⳌⳍⳎⳏⳐⳑⳒⳓⳔⳕⳖⳗⳘⳙⳚⳛⳜⳝⳞⳟⳠⳡⳢⳣⳤⳫⳬⳭⳮⳲⳳꚀꚁꚂꚃꚄꚅꚆꚇꚈꚉꚊꚋꚌꚍꚎꚏꚐꚑꚒꚓꚔꚕꚖꚗꚘꚙꚚꚛꞀꞁ"
    \o "ꞂꞃꞄꞅꞆꞇꞋꞌꞍꞎꞐꞑꞒꞓꞔꞕꞖꞗꞘꞙꞚꞛꞜꞝꞞꞟꞠꞡꞢꞣꞤꞥꞦꞧꞨꞩꞪꞫꞬꞭꞮꞯꞰꞱꞲꞳꞴꞵꞶꞷꞸꞹꞺꞻꞼꞽꞾꞿꟀꟁꟂꟃꟄꟅ"
    \o "ꟆꟇꟈꟉꟊꟐꟑꟓꟕꟖꟗꟘꟙꟵꟶꟺꮀꮁꮂꮃꮄꮅꮆꮇꮈꮉꮊꮋꮌꮍꮎꮏꮐꮑꮒꮓꮔꮕꮖꮗꮘꮙꮚꮛꮜꮝꮞꮟꮠꮡꮢꮣꮤꮥꮦꮧꮨꮩꮪꮫꮬꮭꮮꮯ"
    \o "ꮰꮱꮲꮳꮴꮵꮶꮷꮸꮹꮺꮻꮼꮽꮾꮿ"

CaseIgnorable == Chars(CASE_IGNORABLE)
Cased == Chars(CASED)

\* Whether the capital sigma at place i of s ends a word: a cased letter
\* comes before it and none after it, case-ignorable characters skipped.
FinalSigma(s, i) ==
    LET before == {j \in 1..(i - 1) : SubSeq(s, j, j) \notin CaseIgnorable}
        after == {j \in (i + 1)..Len(s) : SubSeq(s, j, j) \notin CaseIgnorable}
        last == CHOOSE j \in before : \A k \in before : k <= j
        next == CHOOSE j \in after : \A k \in after : j <= k
    IN  /\ before # {}
        /\ SubSeq(s, last, last) \in Cased
        /\ (after = {} \/ SubSeq(s, next, next) \notin Cased)

\* The lower-case form of the character at place i of s.
LowerAt(s, i) ==
    IF SubSeq(s, i, i) # CAPITAL_SIGMA THEN LowerChar(SubSeq(s, i, i))
    ELSE IF FinalSigma(s, i) THEN FINAL_SIGMA
    ELSE SMALL_SIGMA

RECURSIVE LowerFrom(_, _)
LowerFrom(s, i) ==
    IF i > Len(s) THEN "" ELSE LowerAt(s, i) \o LowerFrom(s, i + 1)

\* str.lower()
lower(s) == LowerFrom(s, 1)

\* `sub in s`
Contains(s, sub) ==
    \E i \in 1..(Len(s) - Len(sub) + 1) : SubSeq(s, i, i + Len(sub) - 1) = sub

\* The decimal digits int() reads, in tens from 0 to 9: the ASCII ones and
\* those of the other scripts.
DECIMAL_DIGITS ==
    "0123456789۰۱۲۳۴۵۶۷۸۹߀߁߂߃߄߅߆߇߈߉০১২৩৪৫৬৭৮৯૦૧૨૩૪૫૬૭૮૯௦௧௨௩௪௫௬௭௮௯೦೧೨೩"
    \o "೪೫೬೭೮೯෦෧෨෩෪෫෬෭෮෯໐໑໒໓໔໕໖໗໘໙႐႑႒႓႔႕႖႗႘႙០១២៣៤៥៦៧៨៩᧐᧑᧒᧓᧔᧕᧖᧗᧘᧙᪀᪁᪂᪃᪄᪅᪆᪇"
    \o "᪈᪉᪐᪑᪒᪓᪔᪕᪖᪗᪘᪙᮰᮱᮲᮳᮴᮵᮶᮷᮸᮹꣐꣑꣒꣓꣔꣕꣖꣗꣘꣙꧐꧑꧒꧓꧔꧕꧖꧗꧘꧙꧰꧱꧲꧳꧴꧵꧶꧷꧸꧹꯰꯱꯲꯳꯴꯵꯶꯷꯸꯹"

Digits == Chars(DECIMAL_DIGITS)
DigitValues == [c \in Digits |-> (IndexOf(DECIMAL_DIGITS, c) - 1) % 10]

DigitValue(c) == DigitValues[c]

\* datetime.isoformat(): the text form of a time, here its decimal numeral.
isoformat(t) == ToString(t)

\* datetime.fromisoformat(): the time a numeral denotes.
RECURSIVE fromisoformat(_)
fromisoformat(s) ==
    IF Len(s) = 0 THEN 0
    ELSE IF SubSeq(s, 1, 1) = "-" THEN 0 - fromisoformat(Tail(s))
    ELSE fromisoformat(SubSeq(s, 1, Len(s) - 1)) * 10
            + DigitValue(SubSeq(s, Len(s), Len(s)))

\* json.dump of a credentials dict: None becomes null, a str is quoted, the
\* list of advertiser ids becomes a list of quoted strs.
JsonEncode(v) == IF v = None THEN "null" ELSE "\"" \o v \o "\""
JsonDecode(j) == IF j = "null" THEN None ELSE SubSeq(j, 2, Len(j) - 1)

json_dump(d) ==
    [k \in DOMAIN d |->
        IF k = "advertiser_ids"
        THEN [i \in 1..Len(d[k]) |-> JsonEncode(d[k][i])]
        ELSE JsonEncode(d[k])]

\* A json.load that hands back the text of each value, quotes included.
json_load_raw(j) == j

json_load(j) ==
    [k \in DOMAIN j |->
        IF k = "advertiser_ids"
        THEN [i \in 1..Len(j[k]) |-> JsonDecode(j[k][i])]
        ELSE JsonDecode(j[k])]

-----------------------------------------------------------------------------
(* The credentials file.  It is missing, holds the JSON text of a dict, or *)
(* holds the truncated text a failed write leaves, which json.load rejects.*)

NoFile == [kind |-> "missing"]
PartialFile == [kind |-> "partial"]
JsonFile(d) == [kind |-> "json", text |-> json_dump(d)]

\* How a write to the file can end: it succeeds, open() fails (the file is
\* untouched), or json.dump fails after open() truncated the file.
WriteOutcomes == {"ok", "open_fails", "dump_fails"}

\* The result of an operation: the value returned or the exception raised,
\* the manager state it leaves, and the requests it issued.
Outcome(value, raised, error_type, c, f, m, calls) ==
    [value |-> value, raised |-> raised, error_type |-> error_type,
     credentials |-> c, file |-> f, mock |-> m, calls |-> calls]

\* MockTikTokAPI.uploaded_music of a new process: no file was uploaded.
NoUploads == [path \in {} |-> None]

\* start_oauth_callback_server before it is called.
NoCallback ==
    [pc |-> "not_called", received_code |-> None, elapsed |-> 0,
     request |-> [code |-> None, error |-> None], results |-> <<>>]

-----------------------------------------------------------------------------
(* mock_api.py: MockTikTokAPI, the process-global mock platform.  The      *)
(* numbers an exchange or a refresh draws with random.randint are an      *)
(* input, rnd: rnd[1] for the access token, rnd[2] for the refresh token.  *)

MockAccessToken(rnd) == "mock_access_token_" \o ToString(rnd)
MockRefreshToken(rnd) == "mock_refresh_token_" \o ToString(rnd)

\* MockTikTokAPI.exchange_code_for_token: the response and the token the
\* mock remembers afterwards.
mock_exchange_code_for_token(code, app_id, app_secret, m, rnd) ==
    IF app_id = "invalid_app_id"
    THEN [response |-> [code |-> 40100, message |-> "Invalid client_id", data |-> NoDict],
          mock |-> m]
    ELSE IF app_secret = "invalid_secret"
    THEN [response |-> [code |-> 40100, message |-> "Invalid client_secret", data |-> NoDict],
          mock |-> m]
    ELSE IF code = "invalid_code"
    THEN [response |-> [code |-> 40101, message |-> "Invalid authorization code", data |-> NoDict],
          mock |-> m]
    ELSE [response |->
            [code |-> 0, message |-> "OK",
             data |-> [access_token |-> MockAccessToken(rnd[1]),
                       advertiser_ids |-> <<"123456789">>,
                       expires_in |-> 86400,
                       refresh_token |-> MockRefreshToken(rnd[2]),
                       refresh_expires_in |-> 2592000]],
          mock |-> MockAccessToken(rnd[1])]

\* MockTikTokAPI.refresh_access_token
mock_refresh_access_token(refresh_token, m, rnd) ==
    IF ~StartsWith(refresh_token, "mock_refresh_token_")
    THEN [response |-> [code |-> 40101, message |-> "Invalid refresh token", data |-> NoDict],
          mock |-> m]
    ELSE [response |->
            [code |-> 0, message |-> "OK",
             data |-> [access_token |-> MockAccessToken(rnd[1]),
                       expires_in |-> 86400,
                       refresh_token |-> MockRefreshToken(rnd[2]),
                       refresh_expires_in |-> 2592000]],
          mock |-> MockAccessToken(rnd[1])]

\* MockTikTokAPI._validate_token
mock_validate_token(access_token, m) ==
    IF ~Truthy(access_token) THEN FALSE
    ELSE IF access_token = "expired_token" THEN FALSE
    ELSE IF access_token = "revoked_token" THEN FALSE
    ELSE IF StartsWith(access_token, "mock_access_token_") THEN TRUE
    ELSE access_token = m

-----------------------------------------------------------------------------
(* oauth_manager.py: TikTokOAuthManager *)

DEFAULT_EXPIRES_IN == 86400

\* requests.post raised a RequestException instead of returning a response.
TransportError == [transport_error |-> TRUE]

\* _load_credentials, as __init__ runs it on a manager whose credentials are
\* None: the dict in the file, or None when the file is missing or does not
\* parse.
load_credentials(f) ==
    IF f.kind = "json" THEN json_load(f.text) ELSE NoDict

\* A _save_credentials that never writes.
save_credentials_skipped(c, f, write) == f

\* _save_credentials: the file after the write ended as `write`.
save_credentials(c, f, write) ==
    IF c = NoDict THEN f
    ELSE CASE write = "ok" -> JsonFile(c)
           [] write = "open_fails" -> f
           [] write = "dump_fails" -> PartialFile

\* Error responses of the token endpoints.
ErrorResponses ==
    {[code |-> 40100, message |-> "Invalid client_id"],
     [code |-> 40101, message |-> "Invalid authorization code"],
     [code |-> 50000]}

\* Error responses that differ in how the exchange classifies them: by
\* code, by what a 40100 message mentions, with a null message, without a
\* code.
ClassifiedErrorResponses ==
    {[code |-> 40100, message |-> "Invalid APP_ID or client_secret"],
     [code |-> 40100, message |-> "Invalid client_secret"],
     [code |-> 40100, message |-> "Invalid credentials"],
     [code |-> 40100],
     [code |-> 40100, message |-> None],
     [code |-> 40104, message |-> "Missing scope"],
     [message |-> "Bad gateway"]}

\* An OAuthError of a kind.
OAuthError(error_type) == [raised |-> "OAuthError", error_type |-> error_type]

\* A _handle_token_error that knows codes only: every 40100 is a client id.
handle_token_error_by_code(error_response) ==
    IF "code" \notin DOMAIN error_response THEN OAuthError("OAUTH_ERROR")
    ELSE IF error_response.code = 40100 THEN OAuthError("INVALID_CLIENT_ID")
    ELSE IF error_response.code = 40101 THEN OAuthError("INVALID_CODE")
    ELSE IF error_response.code = 40104 THEN OAuthError("INSUFFICIENT_PERMISSIONS")
    ELSE OAuthError("OAUTH_ERROR")

\* _handle_token_error: the OAuthError it raises, or the AttributeError of
\* message.lower() on a null message.
handle_token_error(error_response) ==
    LET message == Get(error_response, "message", "Unknown error")
    IN  IF "code" \notin DOMAIN error_response THEN OAuthError("OAUTH_ERROR")
        ELSE IF error_response.code = 40100
        THEN IF message = None
             THEN [raised |-> "AttributeError", error_type |-> None]
             ELSE IF Contains(lower(message), "client_id") \/ Contains(lower(message), "app_id")
             THEN OAuthError("INVALID_CLIENT_ID")
             ELSE IF Contains(lower(message), "secret")
             THEN OAuthError("INVALID_CLIENT_SECRET")
             ELSE OAuthError("INVALID_CREDENTIALS")
        ELSE IF error_response.code = 40101 THEN OAuthError("INVALID_CODE")
        ELSE IF error_response.code = 40104 THEN OAuthError("INSUFFICIENT_PERMISSIONS")
        ELSE OAuthError("OAUTH_ERROR")

\* The exception of every error response the model answers with, computed
\* once: those of the real platform, and those of the mock, which carry a
\* null data.
TokenErrors ==
    [response \in ErrorResponses \cup ClassifiedErrorResponses
        \cup {[code |-> r.code, message |-> r.message, data |-> NoDict] :
                r \in {x \in ErrorResponses \cup ClassifiedErrorResponses :
                            DOMAIN x = {"code", "message"}}}
     |-> handle_token_error(response)]

\* self._handle_token_error(response)
token_error(response) ==
    IF response \in DOMAIN TokenErrors
    THEN TokenErrors[response]
    ELSE handle_token_error(response)

\* The credentials dict exchange_code_for_token builds from token_data.
ExchangedCredentials(token_data, t) ==
    [access_token |-> token_data.access_token,
     refresh_token |-> Get(token_data, "refresh_token", None),
     advertiser_ids |-> Get(token_data, "advertiser_ids", <<>>),
     expires_at |-> isoformat(t + Get(token_data, "expires_in", DEFAULT_EXPIRES_IN)),
     created_at |-> isoformat(t)]

\* The dict _refresh_token passes to credentials.update.
RefreshedCredentials(c, token_data, t) ==
    Update(c,
        [access_token |-> token_data.access_token,
         refresh_token |-> Get(token_data, "refresh_token", c.refresh_token),
         expires_at |-> isoformat(t + Get(token_data, "expires_in", DEFAULT_EXPIRES_IN))])

\* How a request was answered: not at all, with an error code, or with code 0.
Answered(response) ==
    IF response = TransportError THEN "transport_error"
    ELSE IF Get(response, "code", 1) # 0 THEN "error"
    ELSE "success"

\* A failed exchange that drops the credentials and removes the file.
raise_token_error_clears(response, c, f, m, calls) ==
    Outcome(NoDict, token_error(response).raised,
            token_error(response).error_type, NoDict, NoFile, m, calls)

\* `self._handle_token_error(response)` in the exchange: the exception
\* leaves the credentials and the file as they are.
raise_token_error(response, c, f, m, calls) ==
    Outcome(NoDict, token_error(response).raised,
            token_error(response).error_type, c, f, m, calls)

\* A failed refresh that drops the credentials and removes the file.
refresh_rejected_clears(c, f, m, calls) ==
    Outcome(FALSE, None, None, NoDict, NoFile, m, calls)

\* `return False` of a refresh whose response carries an error code, or whose
\* request failed: the credentials and the file stay as they are.
refresh_rejected(c, f, m, calls) ==
    Outcome(FALSE, None, None, c, f, m, calls)

\* The part of exchange_code_for_token and _mock_token_exchange after the
\* response is in: the error check, the new credentials and the save.
store_exchanged(response, c, f, m, t, write, calls) ==
    IF Get(response, "code", 1) # 0
    THEN raise_token_error(response, c, f, m, calls)
    ELSE IF (use_mock /\ "data" \notin DOMAIN response)
    THEN Outcome(NoDict, "KeyError", None, c, f, m, calls)
    ELSE LET token_data == Get(response, "data", [is_empty |-> TRUE])
         IN  IF token_data = NoDict
             THEN Outcome(NoDict, "AttributeError", None, c, f, m, calls)
             ELSE IF "access_token" \notin DOMAIN token_data
             THEN Outcome(NoDict, "KeyError", None, c, f, m, calls)
             ELSE LET new == ExchangedCredentials(token_data, t)
                  IN  IF write = "ok"
                      THEN Outcome(new, None, None, new,
                                   save_credentials(new, f, write), m, calls)
                      ELSE Outcome(NoDict, "OSError", None, new,
                                   save_credentials(new, f, write), m, calls)

\* exchange_code_for_token in real mode; `response` is what requests.post
\* gave, or TransportError.
real_exchange_code_for_token(code, cfg, response, c, f, m, t, write) ==
    LET calls == <<[api |-> "oauth2/access_token", auth_code |-> code,
                    answered |-> Answered(response), response |-> response]>>
    IN  IF response = TransportError
        THEN Outcome(NoDict, "OAuthError", "NETWORK_ERROR", c, f, m, calls)
        ELSE store_exchanged(response, c, f, m, t, write, calls)

\* _mock_token_exchange
mock_token_exchange(code, cfg, c, f, m, t, rnd, write) ==
    LET app_id == IF Truthy(cfg.app_id) THEN cfg.app_id ELSE "mock_app_id"
        secret == IF Truthy(cfg.secret) THEN cfg.secret ELSE "mock_secret"
        r == mock_exchange_code_for_token(code, app_id, secret, m, rnd)
        calls == <<[api |-> "mock/exchange_code_for_token", auth_code |-> code,
                    answered |-> Answered(r.response), response |-> r.response]>>
    IN  store_exchanged(r.response, c, f, r.mock, t, write, calls)

\* exchange_code_for_token.  env: the configuration, the platform's response
\* (real mode), the mock's random numbers and how the file write ends.
exchange_code_for_token(code, c, f, m, t, env) ==
    IF use_mock
    THEN mock_token_exchange(code, env.cfg, c, f, m, t, env.rnd, env.write)
    ELSE real_exchange_code_for_token(code, env.cfg, env.response, c, f, m, t, env.write)

\* The part of _refresh_token and _mock_token_refresh after the response is
\* in.  In real mode every exception is caught (`except Exception`) and
\* turns into False; in mock mode nothing is caught.
store_refreshed(response, c, f, m, t, write, calls) ==
    IF Get(response, "code", 1) # 0
    THEN refresh_rejected(c, f, m, calls)
    ELSE LET token_data == Get(response, "data", [is_empty |-> TRUE])
         IN  IF token_data = NoDict
             THEN Outcome(FALSE, IF use_mock THEN "AttributeError" ELSE None,
                          None, c, f, m, calls)
             ELSE IF "access_token" \notin DOMAIN token_data
             THEN Outcome(FALSE, IF use_mock THEN "KeyError" ELSE None,
                          None, c, f, m, calls)
             ELSE LET new == RefreshedCredentials(c, token_data, t)
                  IN  IF write = "ok"
                      THEN Outcome(TRUE, None, None, new,
                                   save_credentials(new, f, write), m, calls)
                      ELSE Outcome(FALSE, IF use_mock THEN "OSError" ELSE None,
                                   None, new, save_credentials(new, f, write), m, calls)

\* _mock_token_refresh
mock_token_refresh(c, f, m, t, rnd, write) ==
    LET r == mock_refresh_access_token(Get(c, "refresh_token", ""), m, rnd)
        calls == <<[api |-> "mock/refresh_access_token",
                    refresh_token |-> Get(c, "refresh_token", ""),
                    answered |-> Answered(r.response), response |-> r.response]>>
    IN  store_refreshed(r.response, c, f, r.mock, t, write, calls)

\* _refresh_token
refresh_token(c, f, m, t, env) ==
    IF c = NoDict \/ ~Truthy(Get(c, "refresh_token", None))
    THEN Outcome(FALSE, None, None, c, f, m, <<>>)
    ELSE IF use_mock
    THEN mock_token_refresh(c, f, m, t, env.rnd, env.write)
    ELSE LET calls == <<[api |-> "oauth2/refresh_token",
                         refresh_token |-> c.refresh_token,
                         answered |-> Answered(env.response),
                         response |-> env.response]>>
         IN  IF env.response = TransportError
             THEN refresh_rejected(c, f, m, calls)
             ELSE store_refreshed(env.response, c, f, m, t, env.write, calls)

\* A has_valid_token that asks for a refresh on every call.
has_valid_token_refreshing(c, f, m, t, env) ==
    IF c = NoDict
    THEN Outcome(FALSE, None, None, c, f, m, <<>>)
    ELSE IF ~Truthy(Get(c, "access_token", None)) \/ ~Truthy(Get(c, "expires_at", None))
    THEN Outcome(FALSE, None, None, c, f, m, <<>>)
    ELSE refresh_token(c, f, m, t, env)

\* has_valid_token
has_valid_token(c, f, m, t, env) ==
    IF c = NoDict
    THEN Outcome(FALSE, None, None, c, f, m, <<>>)
    ELSE LET access_token == Get(c, "access_token", None)
             expires_at == Get(c, "expires_at", None)
         IN  IF ~Truthy(access_token) \/ ~Truthy(expires_at)
             THEN Outcome(FALSE, None, None, c, f, m, <<>>)
             ELSE IF t >= fromisoformat(expires_at)
             THEN refresh_token(c, f, m, t, env)
             ELSE Outcome(TRUE, None, None, c, f, m, <<>>)

\* get_access_token
get_access_token(c, f, m, t, env) ==
    LET h == has_valid_token(c, f, m, t, env)
    IN  IF h.raised # None
        THEN [h EXCEPT !.value = None]
        ELSE IF ~h.value
        THEN [h EXCEPT !.value = None, !.raised = "OAuthError", !.error_type = "NO_TOKEN"]
        ELSE [h EXCEPT !.value = h.credentials.access_token]

-----------------------------------------------------------------------------
(* The environment of the credential manager: configuration, the real      *)
(* platform's answers, the mock's random numbers, the clock.               *)

MaxTicks == 2
\* The two numbers an exchange or a refresh of the mock draws, and the draws
\* named where they are not read.
RandomInts == {<<1000, 1000>>, <<1001, 2033>>}
FirstDraws == <<1000, 1000>>
ClockSteps == {1, DEFAULT_EXPIRES_IN}

\* Config.TIKTOK_APP_ID and Config.TIKTOK_APP_SECRET
Configs ==
    {[app_id |-> None, secret |-> None],
     [app_id |-> "invalid_app_id", secret |-> None],
     [app_id |-> None, secret |-> "invalid_secret"]}

\* The authorization codes handed to exchange_code_for_token.  The real
\* platform's answer is an input of its own, so one code stands for all.
AuthCodes == IF use_mock THEN {"mock_auth_code_10000", "invalid_code"} ELSE {"auth_code_1"}

\* The restriction of a dict to some of its keys.
Restrict(d, keys) == [k \in (DOMAIN d) \cap keys |-> d[k]]

\* The lifetimes a success response gives a token, in seconds.  The code
\* takes expires_in as it comes: one second, and none at all.
Lifetimes == {1, 0}

\* The data of a success response: every key but access_token is optional,
\* and a token may be null.
FullTokenData(access_token, expires_in) ==
    [access_token |-> access_token, refresh_token |-> "rt_1",
     advertiser_ids |-> <<"adv_1">>, expires_in |-> expires_in]

TokenData(access_token) ==
    {FullTokenData(access_token, expires_in) : expires_in \in Lifetimes}
        \cup {Restrict(FullTokenData(access_token, 1), keys) :
                keys \in {{"access_token", "advertiser_ids", "expires_in"},
                          {"access_token", "refresh_token", "expires_in"},
                          {"access_token", "refresh_token", "advertiser_ids"},
                          {"refresh_token", "advertiser_ids", "expires_in"}}}
        \cup {FullTokenData(None, 1)}

SuccessResponses(access_token) ==
    {[code |-> 0, message |-> "OK", data |-> d] : d \in TokenData(access_token)}
        \cup {[code |-> 0, message |-> "OK"],
              [code |-> 0, message |-> "OK", data |-> NoDict]}

\* The token of a success response lasts: its lifetime is not over.
Lasting(response) == Get(Get(response, "data", NoDict), "expires_in", 1) > 0

\* What the platform answers to an exchange.  _handle_token_error reads the
\* response only, and a successful exchange builds the credentials from the
\* response only (oauth_manager.py 173-179), so the responses that differ in
\* nothing but their classification, or in a lifetime that is over, are
\* given to a manager without credentials.
ExchangeResponses ==
    {TransportError} \cup ErrorResponses
        \cup {r \in SuccessResponses("tok_1") : credentials = NoDict \/ Lasting(r)}
        \cup (IF credentials = NoDict THEN ClassifiedErrorResponses ELSE {})

\* The data of refresh responses that rotate the refresh token: to a new
\* one, sent along with other advertiser ids or with a lifetime that was
\* over a second ago, and to null.
RotatingTokenData ==
    {[access_token |-> "tok_2", refresh_token |-> "rt_2",
      advertiser_ids |-> <<"adv_9">>, expires_in |-> 1],
     [access_token |-> "tok_2", refresh_token |-> "rt_2", expires_in |-> -1],
     [access_token |-> "tok_2", refresh_token |-> None, expires_in |-> 1]}

\* What the platform answers to a refresh.  _refresh_token reads of an error
\* response nothing but that its code is not 0, so one stands for all.
RefreshResponses ==
    {TransportError, [code |-> 40101, message |-> "Invalid refresh token"]}
        \cup SuccessResponses("tok_2")
        \cup {[code |-> 0, message |-> "OK", data |-> d] : d \in RotatingTokenData}

DefaultConfig == [app_id |-> None, secret |-> None]

\* A response whose data the manager stores, so that the file is written.
Storable(response) ==
    /\ response # TransportError
    /\ Get(response, "code", 1) = 0
    /\ "data" \in DOMAIN response
    /\ response.data # NoDict
    /\ "access_token" \in DOMAIN response.data

Env(cfg, response, rnd, write) ==
    [cfg |-> cfg, response |-> response, rnd |-> rnd, write |-> write]

\* An input that does not reach the code is held fixed: the platform's
\* response in mock mode, the mock's random numbers and the configuration it
\* reads in real mode, the way the write ends when nothing is written.  A
\* write that fails is given to the responses whose token lasts.
ExchangeEnvs(code) ==
    IF use_mock
    THEN {Env(cfg, TransportError, rnd, write) :
            cfg \in Configs, rnd \in RandomInts, write \in WriteOutcomes}
         \ {e \in [cfg : Configs, response : {TransportError},
                   rnd : RandomInts, write : WriteOutcomes] :
                /\ (e.cfg # DefaultConfig \/ code = "invalid_code")
                /\ (e.rnd # FirstDraws \/ e.write # "ok")}
    ELSE {Env(DefaultConfig, r, FirstDraws, "ok") : r \in ExchangeResponses}
         \cup {Env(DefaultConfig, r, FirstDraws, write) :
                r \in {x \in ExchangeResponses : Storable(x) /\ Lasting(x)},
                write \in WriteOutcomes}

\* Whether has_valid_token on credentials c at time t asks the platform for
\* a refresh.
AsksRefresh(c, t) ==
    /\ c # NoDict
    /\ Truthy(Get(c, "access_token", None))
    /\ Truthy(Get(c, "expires_at", None))
    /\ t >= fromisoformat(c.expires_at)
    /\ Truthy(Get(c, "refresh_token", None))

RefreshEnvs ==
    IF ~AsksRefresh(credentials, now)
    THEN {Env(DefaultConfig, TransportError, FirstDraws, "ok")}
    ELSE IF use_mock
    THEN {Env(DefaultConfig, TransportError, rnd, write) :
            rnd \in RandomInts, write \in WriteOutcomes}
    ELSE {Env(DefaultConfig, r, FirstDraws, "ok") : r \in RefreshResponses}
         \cup {Env(DefaultConfig, r, FirstDraws, write) :
                r \in {x \in SuccessResponses("tok_2") : Storable(x) /\ Lasting(x)},
                write \in WriteOutcomes}

InitialCampaignData ==
    [campaign_name |-> None, objective |-> None, ad_text |-> None,
     cta |-> None, music_id |-> None, music_status |-> "not_requested"]

-----------------------------------------------------------------------------
(* The credential manager as a state machine *)

\* TikTokOAuthManager.__init__ in a new process: the credentials are loaded
\* from the file and the process-global mock starts without a token.
NewManager ==
    /\ credentials' = load_credentials(credentials_file)
    /\ mock_access_token' = None
    /\ uploaded_music' = NoUploads
    /\ running' = TRUE
    /\ ret' = [op |-> "__init__"]
    /\ UNCHANGED <<callback, credentials_file, use_mock, now, ticks, agentVars>>

\* The clock advances.
Tick(d) ==
    /\ running
    /\ ticks < MaxTicks
    /\ now' = now + d
    /\ ticks' = ticks + 1
    /\ ret' = [op |-> "tick"]
    /\ UNCHANGED <<uploaded_music, callback, tokenVars, use_mock, running, agentVars>>

\* The manager state an operation's outcome leaves, and its record in ret.
Finish(op, o) ==
    /\ credentials' = o.credentials
    /\ credentials_file' = o.file
    /\ mock_access_token' = o.mock
    /\ ret' = [op |-> op, value |-> o.value, raised |-> o.raised,
               error_type |-> o.error_type, calls |-> o.calls]

ExchangeCode(code, env) ==
    /\ running
    /\ \E o \in {exchange_code_for_token(code, credentials, credentials_file,
                                         mock_access_token, now, env)} :
            Finish("exchange_code_for_token", o)
    /\ UNCHANGED <<uploaded_music, callback, use_mock, now, ticks, running, agentVars>>

HasValidToken(env) ==
    /\ running
    /\ \E o \in {has_valid_token(credentials, credentials_file,
                                 mock_access_token, now, env)} :
            Finish("has_valid_token", o)
    /\ UNCHANGED <<uploaded_music, callback, use_mock, now, ticks, running, agentVars>>

GetAccessToken(env) ==
    /\ running
    /\ \E o \in {get_access_token(credentials, credentials_file,
                                  mock_access_token, now, env)} :
            Finish("get_access_token", o)
    /\ UNCHANGED <<uploaded_music, callback, use_mock, now, ticks, running, agentVars>>

InitToken ==
    /\ campaign_data = InitialCampaignData
    /\ conversation_history = <<>>
    /\ turns = 0
    /\ credentials_file = NoFile
    /\ credentials = load_credentials(credentials_file)
    /\ use_mock \in BOOLEAN
    /\ mock_access_token = None
    /\ uploaded_music = NoUploads
    /\ callback = NoCallback
    /\ now = 0
    /\ ticks = 0
    /\ running = TRUE
    /\ ret = [op |-> "__init__"]

NextToken ==
    \/ NewManager
    \/ \E d \in ClockSteps : Tick(d)
    \/ \E code \in AuthCodes : \E env \in ExchangeEnvs(code) : ExchangeCode(code, env)
    \/ \E env \in RefreshEnvs : HasValidToken(env)
    \/ \E env \in RefreshEnvs : GetAccessToken(env)

SpecToken == InitToken /\ [][NextToken]_vars

-----------------------------------------------------------------------------
(* Properties of the credential manager, checked under SpecToken *)

\* The stored credentials have run out at time t.
Expired(c, t) ==
    /\ c # NoDict
    /\ Truthy(Get(c, "expires_at", None))
    /\ t >= fromisoformat(c.expires_at)

\* The last operation issued one refresh request.
RefreshRequested ==
    /\ Len(ret.calls) = 1
    /\ ret.calls[1].api \in {"oauth2/refresh_token", "mock/refresh_access_token"}

\* C3 as stated: whenever get_access_token returns, the stored credentials'
\* expires_at is strictly later than the current time, also right after an
\* implicit refresh; an expired token is never returned.
C3_ReturnedTokenNotExpired ==
    (ret.op = "get_access_token" /\ ret.raised = None) =>
        /\ credentials # NoDict
        /\ ret.value = credentials.access_token
        /\ fromisoformat(credentials.expires_at) > now

\* C4 as stated: for every expired stored credential, get_access_token sends
\* a refresh request carrying the stored refresh token, and if the request is
\* answered with an error or not at all the call fails with NO_TOKEN and
\* leaves credentials and file untouched.  (Stated for credentials that hold
\* an access token.)
C4_Original ==
    [][(/\ Expired(credentials, now)
        /\ Truthy(credentials.access_token)
        /\ ret'.op = "get_access_token")
       => /\ Len(ret'.calls) = 1
          /\ ret'.calls[1].refresh_token = credentials.refresh_token
          /\ (ret'.calls[1].answered # "success"
                => /\ ret'.raised = "OAuthError"
                   /\ ret'.error_type = "NO_TOKEN"
                   /\ credentials' = credentials
                   /\ credentials_file' = credentials_file)]_vars

\* C4, amended: for an expired stored credential, get_access_token sends one
\* refresh request, carrying the stored refresh token, exactly when the
\* credential holds a non-empty access token and a non-empty refresh token;
\* when no request is sent, or the request is answered with an error or not
\* at all, the call fails with NO_TOKEN and credentials and file are exactly
\* what they were.
C4_ExpiredRefreshOrNoToken ==
    [][(Expired(credentials, now) /\ ret'.op = "get_access_token")
       => /\ IF Truthy(credentials.access_token) /\ Truthy(credentials.refresh_token)
             THEN /\ Len(ret'.calls) = 1
                  /\ ret'.calls[1].api \in {"oauth2/refresh_token",
                                            "mock/refresh_access_token"}
                  /\ ret'.calls[1].refresh_token = credentials.refresh_token
             ELSE ret'.calls = <<>>
          /\ ((ret'.calls = <<>> \/ ret'.calls[1].answered # "success")
                => /\ ret'.raised = "OAuthError"
                   /\ ret'.error_type = "NO_TOKEN"
                   /\ credentials' = credentials
                   /\ credentials_file' = credentials_file)]_vars

\* An expired credential's refresh request was refused: get_access_token
\* raised NO_TOKEN and the credential is still stored.
C4_Witness ==
    /\ ret.op = "get_access_token"
    /\ ret.raised = "OAuthError"
    /\ ret.error_type = "NO_TOKEN"
    /\ RefreshRequested
    /\ ret.calls[1].answered # "success"
    /\ Expired(credentials, now)
    /\ load_credentials(credentials_file) = credentials

\* C5: an exchange whose request is answered with an error code, or not at
\* all, raises an error (an OAuthError, or the AttributeError of a null
\* message) and leaves the in-memory credentials and the credentials file
\* exactly as they were.
C5_FailedExchangeKeepsCredential ==
    [][(ret'.op = "exchange_code_for_token" /\ ret'.calls[1].answered # "success")
       => /\ ret'.raised \in {"OAuthError", "AttributeError"}
          /\ credentials' = credentials
          /\ credentials_file' = credentials_file]_vars

\* An exchange failed while a credential was stored.
C5_Witness ==
    /\ ret.op = "exchange_code_for_token"
    /\ ret.raised = "OAuthError"
    /\ credentials # NoDict
    /\ credentials_file.kind = "json"

\* C9: when an exchange or a refresh has completed, what the file holds is
\* the in-memory credentials; and whatever a failed write left behind, after
\* the next load the in-memory credentials are what the file holds (nothing,
\* when the file is missing or truncated).
C9_PersistedWithMemory ==
    /\ (ret.op = "exchange_code_for_token" /\ ret.raised = None)
            => load_credentials(credentials_file) = credentials
    /\ (ret.op = "get_access_token" /\ ret.raised = None /\ ret.calls # <<>>)
            => load_credentials(credentials_file) = credentials
    /\ (ret.op = "has_valid_token" /\ ret.value /\ ret.calls # <<>>)
            => load_credentials(credentials_file) = credentials
    /\ ret.op = "__init__"
            => IF credentials_file.kind = "json"
               THEN JsonFile(credentials) = credentials_file
               ELSE credentials = NoDict

\* A manager was constructed over the truncated file a failed write left.
C9_Witness ==
    /\ ret.op = "__init__"
    /\ credentials_file.kind = "partial"
    /\ credentials = NoDict

\* C10: the credentials file never holds a credential with a null
\* access_token, expires_at or created_at, or without advertiser_ids.
C10_PersistedCredentialComplete ==
    credentials_file.kind = "json" =>
        LET c == json_load(credentials_file.text)
        IN  /\ {"access_token", "expires_at", "created_at", "advertiser_ids"}
                    \subseteq DOMAIN c
            /\ c.access_token # None
            /\ c.expires_at # None
            /\ c.created_at # None

\* C15: when a manager is constructed right after a successful exchange, the
\* credentials it loads from the file have the access_token and the
\* expires_at the exchange produced, and the expiry denotes the same time.
C15_ExchangeRoundTrip ==
    [][(/\ ret.op = "exchange_code_for_token"
        /\ ret.raised = None
        /\ ret'.op = "__init__")
       => /\ credentials' # NoDict
          /\ credentials'.access_token = credentials.access_token
          /\ credentials'.expires_at = credentials.expires_at
          /\ fromisoformat(credentials'.expires_at)
                = fromisoformat(ret.value.expires_at)
          /\ credentials'.access_token = ret.value.access_token]_vars

\* A manager constructed after the clock had advanced loaded the credentials
\* of an exchange: the token is there and created_at is the exchange's time.
C15_Witness ==
    /\ ret.op = "__init__"
    /\ credentials # NoDict
    /\ Truthy(credentials.access_token)
    /\ fromisoformat(credentials.created_at) > 0
    /\ fromisoformat(credentials.expires_at) > fromisoformat(credentials.created_at)
    /\ credentials_file = JsonFile(credentials)

\* Whether the message of an error response mentions a word, in any case.
Mentions(response, word) ==
    /\ "message" \in DOMAIN response
    /\ response.message # None
    /\ Contains(lower(response.message), word)

\* The kind C18 gives the failure of an exchange answered with `response`.
ClaimedKind(response) ==
    IF response = TransportError THEN "NETWORK_ERROR"
    ELSE IF "code" \notin DOMAIN response THEN "OAUTH_ERROR"
    ELSE IF response.code = 40100
                /\ (Mentions(response, "client_id") \/ Mentions(response, "app_id"))
    THEN "INVALID_CLIENT_ID"
    ELSE IF response.code = 40100 /\ Mentions(response, "secret")
    THEN "INVALID_CLIENT_SECRET"
    ELSE IF response.code = 40101 THEN "INVALID_CODE"
    ELSE IF response.code = 40104 THEN "INSUFFICIENT_PERMISSIONS"
    ELSE "OAUTH_ERROR"

\* A 40100 response whose message mentions neither the client id nor the
\* secret.
OtherCredentialsError(response) ==
    /\ response # TransportError
    /\ "code" \in DOMAIN response
    /\ response.code = 40100
    /\ ~Mentions(response, "client_id")
    /\ ~Mentions(response, "app_id")
    /\ ~Mentions(response, "secret")

\* The last operation was an exchange that the platform answered with an
\* error response whose message is a text or is missing, or did not answer.
FailedExchange ==
    /\ ret.op = "exchange_code_for_token"
    /\ ret.calls[1].answered # "success"
    /\ Get(ret.calls[1].response, "message", "") # None

\* C18 as stated: an exchange answered with an error response, or not at
\* all, raises an OAuthError of the kind the claim derives from the code and
\* the message, one of six.  (Stated for responses whose message is not
\* null.)
C18_Original ==
    FailedExchange =>
        /\ ret.raised = "OAuthError"
        /\ ret.error_type = ClaimedKind(ret.calls[1].response)

\* C18, amended: an exchange answered with an error response whose message
\* is a text or is missing, or not answered at all, raises an OAuthError of
\* the kind C18 names, or, for a 40100 response whose message mentions
\* neither client_id/app_id nor secret, of a seventh kind,
\* INVALID_CREDENTIALS.
C18_ExchangeErrorKinds ==
    FailedExchange =>
        /\ ret.raised = "OAuthError"
        /\ ret.error_type = IF OtherCredentialsError(ret.calls[1].response)
                            THEN "INVALID_CREDENTIALS"
                            ELSE ClaimedKind(ret.calls[1].response)

\* An exchange answered with code 40100 and a message that mentions the
\* secret raised INVALID_CLIENT_SECRET while a credential was stored.
C18_Witness ==
    /\ ret.op = "exchange_code_for_token"
    /\ ret.raised = "OAuthError"
    /\ ret.error_type = "INVALID_CLIENT_SECRET"
    /\ ret.calls[1].response.code = 40100
    /\ credentials # NoDict

\* The stored credentials have not run out at time t.
Valid(c, t) ==
    /\ c # NoDict
    /\ Truthy(Get(c, "expires_at", None))
    /\ t < fromisoformat(c.expires_at)

\* The manager's state and the name of its last operation.
managerView == <<credentials, credentials_file, mock_access_token, now, ret.op>>

\* C19: with a stored credential whose expires_at is later than the current
\* time, get_access_token returns the stored access_token, sends no request,
\* and leaves the credentials and the credentials file as they were.
\* (Stated for credentials that hold an access token.)
C19_ValidCredentialReadOnly ==
    [][(/\ Valid(credentials, now)
        /\ Truthy(credentials.access_token)
        /\ ret'.op = "get_access_token")
       => /\ ret'.raised = None
          /\ ret'.value = credentials.access_token
          /\ ret'.calls = <<>>
          /\ credentials' = credentials
          /\ credentials_file' = credentials_file]_managerView

\* After the clock had advanced, get_access_token returned the token of a
\* stored credential that had not run out, without a request.
C19_Witness ==
    /\ ret.op = "get_access_token"
    /\ ret.raised = None
    /\ ret.calls = <<>>
    /\ ticks > 0
    /\ Valid(credentials, now)
    /\ Truthy(ret.value)
    /\ ret.value = credentials.access_token
    /\ credentials_file = JsonFile(credentials)

\* The last operation was a refresh that succeeded: has_valid_token gave
\* True, or get_access_token returned, after a refresh request.
Refreshed(r) ==
    /\ r.op \in {"has_valid_token", "get_access_token"}
    /\ r.calls # <<>>
    /\ r.raised = None
    /\ (r.op = "has_valid_token" => r.value)

\* C20 as stated: when a stored credential that has run out is refreshed
\* successfully, the credentials take access_token from the response and
\* expires_at from the time of the call and the response's lifetime, and
\* have not run out any more; advertiser_ids and created_at stay as they
\* were; refresh_token changes only when the response has one, and is then
\* the response's; and the credentials file holds the new credentials.
C20_RefreshReplacesTokenAndExpiry ==
    [][(Expired(credentials, now) /\ Refreshed(ret'))
       => LET data == ret'.calls[1].response.data
          IN  /\ ret'.calls[1].answered = "success"
              /\ credentials'.access_token = data.access_token
              /\ credentials'.expires_at
                    = isoformat(now + Get(data, "expires_in", DEFAULT_EXPIRES_IN))
              /\ Valid(credentials', now')
              /\ credentials'.advertiser_ids = credentials.advertiser_ids
              /\ credentials'.created_at = credentials.created_at
              /\ DOMAIN credentials' = DOMAIN credentials
              /\ (credentials'.refresh_token # credentials.refresh_token
                    => "refresh_token" \in DOMAIN data)
              /\ ("refresh_token" \in DOMAIN data
                    => credentials'.refresh_token = data.refresh_token)
              /\ credentials_file' = JsonFile(credentials')
              /\ load_credentials(credentials_file') = credentials']_managerView

-----------------------------------------------------------------------------
(* Python values, continued: str.find, slices, parsed JSON.                *)
(* A string of this module cannot hold them, so three characters of the    *)
(* source are written differently here: the backquote is written as an     *)
(* apostrophe (a code fence is FENCE), U+2022 as BULLET and the characters *)
(* in front of "Success!" as PARTY.                                        *)

FENCE == "'''"
BULLET == "*"
PARTY == ":tada:"

\* str.find(sub, start): the 0-based index of the first occurrence of sub at
\* or after start, or -1.
Find(s, sub, start) ==
    LET hits == {i \in start..(Len(s) - Len(sub)) :
                    SubSeq(s, i + 1, i + Len(sub)) = sub}
    IN  IF hits = {} THEN -1 ELSE CHOOSE i \in hits : \A j \in hits : i <= j

\* str.rfind(sub)
RFind(s, sub) ==
    LET hits == {i \in 0..(Len(s) - Len(sub)) :
                    SubSeq(s, i + 1, i + Len(sub)) = sub}
    IN  IF hits = {} THEN -1 ELSE CHOOSE i \in hits : \A j \in hits : i >= j

\* s[a:b] for a >= 0; a negative b counts from the end.
Slice(s, a, b) ==
    LET e == IF b < 0 THEN (IF Len(s) + b < 0 THEN 0 ELSE Len(s) + b)
             ELSE IF b > Len(s) THEN Len(s) ELSE b
    IN  IF e <= a THEN "" ELSE SubSeq(s, a + 1, e)

\* What json.loads returns, tagged with its Python type.  The values of a
\* parsed object are strings or None, except collected_data, which is tagged
\* too.
JNull == [type |-> "null"]
JInt(n) == [type |-> "int", value |-> n]
JStr(s) == [type |-> "str", value |-> s]
JDict(d) == [type |-> "dict", value |-> d]
JSONDecodeError == [type |-> "JSONDecodeError"]
EmptyDict == [k \in {} |-> None]

\* A function's return: a value, or an exception raised.
Returned(v) == [raised |-> None, value |-> v]
Raised(e) == [raised |-> e]

\* An int or a str where the code accepts both (a response's code).
PyInt(n) == [int |-> n]
PyStr(s) == [str |-> s]
\* `code == n`
IsInt(code, n) == "int" \in DOMAIN code /\ code.int = n
\* The numeral without its sign.
Unsigned(s) ==
    IF Len(s) > 0 /\ SubSeq(s, 1, 1) \in {"+", "-"}
    THEN SubSeq(s, 2, Len(s))
    ELSE s

\* The characters int() skips around a numeral: those str.strip() removes,
\* without the separators \x1c to \x1f.
IntWhitespace == Whitespace \ {FS, GS, RS, US}

\* The numeral without the whitespace int() skips around it.
RECURSIVE IntTrim(_)
IntTrim(s) ==
    IF Len(s) > 0 /\ SubSeq(s, 1, 1) \in IntWhitespace THEN IntTrim(Tail(s))
    ELSE IF Len(s) > 0 /\ SubSeq(s, Len(s), Len(s)) \in IntWhitespace
    THEN IntTrim(SubSeq(s, 1, Len(s) - 1))
    ELSE s

\* The strings int() accepts: surrounding whitespace, one sign, then digits
\* with single underscores between them.
IsDigits(s) ==
    LET body == Unsigned(IntTrim(s))
    IN  /\ Len(body) > 0
        /\ SubSeq(body, 1, 1) \in Digits
        /\ SubSeq(body, Len(body), Len(body)) \in Digits
        /\ \A i \in 1..Len(body) : SubSeq(body, i, i) \in Digits \cup {"_"}
        /\ \A i \in 1..(Len(body) - 1) :
              ~(SubSeq(body, i, i) = "_" /\ SubSeq(body, i + 1, i + 1) = "_")

\* The number the digits of an accepted body denote, underscores skipped.
RECURSIVE Magnitude(_)
Magnitude(s) ==
    IF Len(s) = 0 THEN 0
    ELSE IF SubSeq(s, Len(s), Len(s)) = "_"
    THEN Magnitude(SubSeq(s, 1, Len(s) - 1))
    ELSE Magnitude(SubSeq(s, 1, Len(s) - 1)) * 10
            + DigitValue(SubSeq(s, Len(s), Len(s)))

\* int(s) of an accepted string.
IntValue(s) ==
    LET trimmed == IntTrim(s)
    IN  IF SubSeq(trimmed, 1, 1) = "-"
        THEN 0 - Magnitude(Unsigned(trimmed))
        ELSE Magnitude(Unsigned(trimmed))

\* None where a code is expected.
PyNone == [none |-> TRUE]
\* int(code): a number, ValueError for a str that is not a number, TypeError
\* for None
IntOf(code) ==
    IF "int" \in DOMAIN code THEN Returned(code.int)
    ELSE IF "str" \notin DOMAIN code THEN Raised("TypeError")
    ELSE IF IsDigits(code.str) THEN Returned(IntValue(code.str))
    ELSE Raised("ValueError")

-----------------------------------------------------------------------------
(* The texts the language model can answer with, and json.loads on them.   *)

DocDraft ==
    "{\"conversation_response\": \"OK\", \"collected_data\": {\"campaign_name\": \"Summer Sale\", \"objective\": \"Traffic\", \"ad_text\": \"Buy now\", \"cta\": \"SHOP_NOW\"}, \"next_action\": \"continue\"}"
DocConversions ==
    "{\"conversation_response\": \"OK\", \"collected_data\": {\"objective\": \"Conversions\"}, \"next_action\": \"submit\"}"
DocMusic ==
    "{\"conversation_response\": \"OK\", \"collected_data\": {\"music_id\": \"music_123\"}, \"next_action\": \"validate_music\"}"
DocBadMusic ==
    "{\"collected_data\": {\"music_id\": \"music_not_found\"}, \"next_action\": \"validate_music\"}"
DocSubmit ==
    "{\"conversation_response\": \"OK\", \"next_action\": \"submit\"}"
DocRule ==
    "{\"conversation_response\": \"A campaign name needs 3 characters.\", \"collected_data\": {\"campaign_name\": \"Ab\"}, \"next_action\": \"enforce_rule\"}"
DocNullData ==
    "{\"conversation_response\": \"OK\", \"collected_data\": null}"
DocTextData ==
    "{\"collected_data\": \"none yet\"}"
DocSwitchMusic ==
    "{\"conversation_response\": \"OK\", \"collected_data\": {\"music_id\": \"music_456\", \"cta\": null}, \"next_action\": \"continue\"}"
DocAskMusic ==
    "{\"conversation_response\": \"Which music?\", \"next_action\": \"validate_music\"}"
DocNumberData ==
    "{\"collected_data\": 42}"
DocNumber == "42"
DocNull == "null"
DocInterpretation ==
    "{\"conversation_response\": \"That did not work.\"}"

\* What the language model answers in a turn.
LlmOutputs ==
    {DocDraft, DocConversions, DocBadMusic, DocRule, DocNullData, DocTextData,
     DocNumberData, DocSwitchMusic, DocAskMusic, DocNumber, DocNull,
     FENCE \o "json\n" \o DocMusic \o "\n" \o FENCE,
     "Sure! " \o DocSubmit \o " Let me know.",
     FENCE \o "json\n" \o DocSubmit,
     "I cannot help with that."}

\* What it answers when asked to interpret a failure.
InterpretationOutputs == {DocInterpretation, "I cannot help with that.", DocNumber}

\* json.loads as a table: the documents above and their values.  Every
\* other text the model passes to it is not JSON.
JsonDocuments ==
    << [text |-> DocDraft,
        value |-> JDict([conversation_response |-> "OK",
                         collected_data |-> JDict([campaign_name |-> "Summer Sale",
                                                   objective |-> "Traffic",
                                                   ad_text |-> "Buy now",
                                                   cta |-> "SHOP_NOW"]),
                         next_action |-> "continue"])],
       [text |-> DocConversions,
        value |-> JDict([conversation_response |-> "OK",
                         collected_data |-> JDict([objective |-> "Conversions"]),
                         next_action |-> "submit"])],
       [text |-> DocMusic,
        value |-> JDict([conversation_response |-> "OK",
                         collected_data |-> JDict([music_id |-> "music_123"]),
                         next_action |-> "validate_music"])],
       [text |-> DocBadMusic,
        value |-> JDict([collected_data |-> JDict([music_id |-> "music_not_found"]),
                         next_action |-> "validate_music"])],
       [text |-> DocSubmit,
        value |-> JDict([conversation_response |-> "OK", next_action |-> "submit"])],
       [text |-> DocRule,
        value |-> JDict([conversation_response |-> "A campaign name needs 3 characters.",
                         collected_data |-> JDict([campaign_name |-> "Ab"]),
                         next_action |-> "enforce_rule"])],
       [text |-> DocNullData,
        value |-> JDict([conversation_response |-> "OK", collected_data |-> JNull])],
       [text |-> DocTextData,
        value |-> JDict([collected_data |-> JStr("none yet")])],
       [text |-> DocNumberData,
        value |-> JDict([collected_data |-> JInt(42)])],
       [text |-> DocSwitchMusic,
        value |-> JDict([conversation_response |-> "OK",
                         collected_data |-> JDict([music_id |-> "music_456",
                                                   cta |-> None]),
                         next_action |-> "continue"])],
       [text |-> DocAskMusic,
        value |-> JDict([conversation_response |-> "Which music?",
                         next_action |-> "validate_music"])],
       [text |-> DocNumber, value |-> JInt(42)],
       [text |-> DocNull, value |-> JNull],
       [text |-> DocInterpretation,
        value |-> JDict([conversation_response |-> "That did not work."])] >>

json_loads(s) ==
    IF \E i \in 1..Len(JsonDocuments) : JsonDocuments[i].text = s
    THEN JsonDocuments[CHOOSE i \in 1..Len(JsonDocuments) : JsonDocuments[i].text = s].value
    ELSE JSONDecodeError

-----------------------------------------------------------------------------
(* agent.py: AgentResponse *)

APOLOGY ==
    "I apologize, but I'm having trouble processing that. Could you please rephrase?"

\* AgentResponse._extract_json
extract_json(text) ==
    IF Contains(text, FENCE \o "json")
    THEN LET start == Find(text, FENCE \o "json", 0) + Len(FENCE \o "json")
             end == Find(text, FENCE, start)
         IN  strip(Slice(text, start, end))
    ELSE IF Contains(text, FENCE)
    THEN LET start == Find(text, FENCE, 0) + Len(FENCE)
             end == Find(text, FENCE, start)
         IN  strip(Slice(text, start, end))
    ELSE LET start == Find(text, "{", 0)
             end == RFind(text, "}") + 1
         IN  IF start # -1 /\ end > start THEN Slice(text, start, end) ELSE text

\* AgentResponse.__init__: parsed and error.
parse_response(raw_response) ==
    LET v == json_loads(extract_json(raw_response))
    IN  IF v.type = "JSONDecodeError"
        THEN [parsed |-> JNull, error |-> "Failed to parse agent response"]
        ELSE [parsed |-> v, error |-> None]

\* The AgentResponse of every text the model answers with, computed once.
AgentResponses ==
    [raw_response \in LlmOutputs \cup InterpretationOutputs |->
        parse_response(raw_response)]

\* AgentResponse(raw_response)
AgentResponse(raw_response) ==
    IF raw_response \in DOMAIN AgentResponses
    THEN AgentResponses[raw_response]
    ELSE parse_response(raw_response)

is_valid(r) == r.parsed.type # "null" /\ r.error = None

\* self.parsed.get(key, default): only a dict has .get
parsed_get(r, key, default) ==
    IF r.parsed.type # "dict" THEN Raised("AttributeError")
    ELSE Returned(Get(r.parsed.value, key, default))

get_conversation_response(r) ==
    IF ~is_valid(r) THEN Returned(APOLOGY)
    ELSE parsed_get(r, "conversation_response", "")

get_collected_data(r) ==
    IF ~is_valid(r) THEN Returned(JDict(EmptyDict))
    ELSE parsed_get(r, "collected_data", JDict(EmptyDict))

get_next_action(r) ==
    IF ~is_valid(r) THEN Returned("continue")
    ELSE parsed_get(r, "next_action", "continue")

-----------------------------------------------------------------------------
(* mock_api.py: music validation and ad creation on the mock platform.     *)
(* Nothing the agent does uploads music, so uploaded_music stays empty.    *)

VALID_MUSIC_IDS == {"music_123", "music_456", "music_789", "music_abc", "music_xyz"}

ERROR_MUSIC_IDS ==
    [music_not_found |-> [code |-> PyStr("40300"), message |-> "Music not found"],
     music_geo_001 |-> [code |-> PyStr("40301"),
                        message |-> "Music not available in your region"],
     music_copyright |-> [code |-> PyStr("40302"),
                          message |-> "Copyright restricted music"]]

\* MockTikTokAPI.validate_music
mock_validate_music(music_id, access_token, m) ==
    IF ~mock_validate_token(access_token, m)
    THEN [code |-> PyInt(40100), message |-> "Invalid or expired access token"]
    ELSE IF music_id \in DOMAIN ERROR_MUSIC_IDS
    THEN ERROR_MUSIC_IDS[music_id]
    ELSE IF \/ music_id \in VALID_MUSIC_IDS
            \/ music_id \in {uploaded_music[path] : path \in DOMAIN uploaded_music}
    THEN [code |-> PyInt(0), message |-> "OK",
          data |-> [music_id |-> music_id, title |-> "Sample Music " \o music_id]]
    ELSE [code |-> PyStr("40300"), message |-> "Music not found"]

\* MockTikTokAPI.upload_music: the response, and the uploads it leaves.  rnd
\* is what random.randint(1000, 9999) returns.
mock_upload_music(file_path, access_token, m, uploads, rnd) ==
    IF ~mock_validate_token(access_token, m)
    THEN [response |-> [code |-> PyInt(40100),
                        message |-> "Invalid or expired access token"],
          uploaded_music |-> uploads]
    ELSE [response |-> [code |-> PyInt(0), message |-> "OK",
                        data |-> [music_id |-> "music_custom_" \o ToString(rnd),
                                  upload_status |-> "completed"]],
          uploaded_music |->
                [path \in DOMAIN uploads \cup {file_path} |->
                    IF path = file_path THEN "music_custom_" \o ToString(rnd)
                    ELSE uploads[path]]]

\* MockTikTokAPI.create_ad; geo is `random.random() < 0.05`, rnd the random
\* number of the ad id.
mock_create_ad(ad_payload, access_token, m, geo, rnd) ==
    LET music_id == Get(ad_payload.creative, "music_id", None)
    IN  IF ~mock_validate_token(access_token, m)
        THEN [code |-> PyInt(40100), message |-> "Invalid or expired access token"]
        ELSE IF Truthy(music_id)
                /\ ~IsInt(mock_validate_music(music_id, access_token, m).code, 0)
        THEN [code |-> PyInt(40300),
              message |-> "Invalid music_id: "
                  \o mock_validate_music(music_id, access_token, m).message]
        ELSE IF geo
        THEN [code |-> PyInt(40104),
              message |-> "Ad creation not available in your region"]
        ELSE [code |-> PyInt(0), message |-> "OK",
              data |-> [ad_id |-> "ad_" \o ToString(rnd), status |-> "PENDING_REVIEW"]]

-----------------------------------------------------------------------------
(* api_client.py: TikTokAPIClient.  A client call returns an Outcome whose *)
(* value is the result dict.                                               *)

\* The one element of a singleton set: Only({F(x) : x \in {e}}) is F(e)
\* with e evaluated once.
Only(S) == CHOOSE x \in S : TRUE

\* str(value) in an f-string
Format(v) == IF v = None THEN "None" ELSE v

\* _interpret_submission_error: the text, None when no branch returns, or
\* the exception int(code) or message.lower() raises.
interpret_submission_error(error_response) ==
    LET code == Get(error_response, "code", PyStr(""))
        message == Get(error_response, "message", "")
    IN  IF IsInt(code, 40100)
        THEN Returned("Your access token is invalid or expired. Let me help you re-authenticate.")
        ELSE IF IsInt(code, 40104)
        THEN IF message = None
             THEN Raised("AttributeError")
             ELSE IF Contains(lower(message), "permission")
             THEN Returned("Your app doesn't have permission for ad creation. Please add required scopes in TikTok Developer dashboard.")
             ELSE IF Contains(lower(message), "region") \/ Contains(lower(message), "geo")
             THEN Returned("Ad creation is not available in your region. You may need to use a VPN or regional account.")
             ELSE Returned(None)
        ELSE IF IsInt(code, 40300)
        THEN Returned("Invalid music: " \o Format(message))
        ELSE IF IsInt(code, 429)
        THEN Returned("TikTok is rate limiting requests. Let's wait a moment and try again.")
        ELSE IF IntOf(code).raised # None
        THEN IntOf(code)
        ELSE IF IntOf(code).value >= 500
        THEN Returned("TikTok's API is experiencing issues. Would you like to retry or save as draft?")
        ELSE Returned("Submission failed: " \o Format(message))

\* _build_ad_payload: the payload, or the IndexError of `[0]` on an empty
\* list of advertiser ids.
build_ad_payload(campaign_data_, c) ==
    LET ids == Get(c, "advertiser_ids", <<None>>)
        creative == [ad_text |-> campaign_data_.ad_text,
                     call_to_action |-> campaign_data_.cta]
    IN  IF Len(ids) = 0
        THEN Raised("IndexError")
        ELSE Returned(
                [advertiser_id |-> ids[1],
                 campaign_name |-> campaign_data_.campaign_name,
                 objective |-> campaign_data_.objective,
                 creative |->
                    IF Truthy(Get(campaign_data_, "music_id", None))
                    THEN Update(creative, [music_id |-> campaign_data_.music_id])
                    ELSE creative])

\* The result dict of validate_music for a response.
music_result(valid) == [valid |-> valid]

\* How the platform answered a client request: not at all (requests raised a
\* RequestException), with code 0, or with anything else.
ClientAnswered(response) ==
    IF response = TransportError THEN "transport_error"
    ELSE IF "code" \in DOMAIN response /\ IsInt(response.code, 0) THEN "success"
    ELSE "error"

\* validate_music and _mock_validate_music.  The token is fetched first; an
\* OAuthError from it is not caught.  In real mode env.api is the
\* platform's answer to GET /music/info/.
music_validated_with(tok, music_id, env) ==
        IF tok.raised # None
        THEN [tok EXCEPT !.value = NoDict]
        ELSE IF use_mock
        THEN LET response == mock_validate_music(music_id, tok.value, tok.mock)
             IN  [tok EXCEPT
                    !.value = music_result(IsInt(response.code, 0)),
                    !.calls = Append(tok.calls,
                        [api |-> "mock/validate_music", music_id |-> music_id,
                         access_token |-> tok.value,
                         answered |-> ClientAnswered(response)])]
        ELSE [tok EXCEPT
                !.value = music_result(/\ env.api # TransportError
                                       /\ "code" \in DOMAIN env.api
                                       /\ IsInt(env.api.code, 0)),
                !.calls = Append(tok.calls,
                    [api |-> "music/info", music_id |-> music_id,
                     access_token |-> tok.value,
                     answered |-> ClientAnswered(env.api)])]

validate_music(music_id, c, f, m, t, env) ==
    Only({music_validated_with(tok, music_id, env) :
                tok \in {get_access_token(c, f, m, t, env.token)}})

\* The result dict of create_ad for a response that arrived.
ad_result(response) ==
    IF "code" \in DOMAIN response /\ IsInt(response.code, 0)
    THEN IF "data" \in DOMAIN response /\ response.data = NoDict
         THEN Raised("AttributeError")
         ELSE Returned([success |-> TRUE,
                        ad_id |-> Get(Get(response, "data", EmptyDict), "ad_id", None),
                        error |-> None, error_details |-> NoDict])
    ELSE IF interpret_submission_error(response).raised # None
    THEN interpret_submission_error(response)
    ELSE Returned([success |-> FALSE, ad_id |-> None,
                   error |-> interpret_submission_error(response).value,
                   error_details |-> response])

\* create_ad and _mock_create_ad.  In real mode env.api is the platform's
\* answer to POST /ad/create/; a RequestException gives a result whose
\* error_details is None.
ad_created_with(tok, campaign_data_, env) ==
    LET payload == build_ad_payload(campaign_data_, tok.credentials)
    IN  IF tok.raised # None
        THEN [tok EXCEPT !.value = NoDict]
        ELSE IF payload.raised # None
        THEN [tok EXCEPT !.value = NoDict, !.raised = payload.raised]
        ELSE LET response ==
                    IF use_mock
                    THEN mock_create_ad(payload.value, tok.value, tok.mock,
                                        env.geo, env.rnd)
                    ELSE env.api
                 calls == Append(tok.calls,
                            [api |-> IF use_mock THEN "mock/create_ad" ELSE "ad/create",
                             payload |-> payload.value, access_token |-> tok.value,
                             answered |-> ClientAnswered(response)])
             IN  IF response = TransportError
                 THEN [tok EXCEPT
                        !.value = [success |-> FALSE, ad_id |-> None,
                                   error |-> "Network error", error_details |-> NoDict],
                        !.calls = calls]
                 ELSE IF ad_result(response).raised # None
                 THEN [tok EXCEPT !.value = NoDict,
                                  !.raised = ad_result(response).raised,
                                  !.calls = calls]
                 ELSE [tok EXCEPT !.value = ad_result(response).value,
                                  !.calls = calls]

create_ad(campaign_data_, c, f, m, t, env) ==
    Only({ad_created_with(tok, campaign_data_, env) :
                tok \in {get_access_token(c, f, m, t, env.token)}})

\* The result dict of upload_music.
upload_result(success, music_id, error) ==
    [success |-> success, music_id |-> music_id, error |-> error]

\* The result of upload_music for a response with a code: `data.get("data",
\* {}).get("music_id")` raises AttributeError when data is null.
uploaded(response) ==
    IF "code" \in DOMAIN response /\ IsInt(response.code, 0)
    THEN IF "data" \in DOMAIN response /\ response.data = NoDict
         THEN Raised("AttributeError")
         ELSE Returned(upload_result(TRUE,
                    Get(Get(response, "data", EmptyDict), "music_id", None), None))
    ELSE Returned(upload_result(FALSE, None, Get(response, "message", "Upload failed")))

\* upload_music and _mock_upload_music, from the token on.  The mock raises
\* what get_access_token raises.  In real mode every exception is caught and
\* becomes a failure result whose error is str(e), here the exception's
\* name: the OAuthError of _get_headers, the error of open(file_path), a
\* RequestException and the AttributeError of a null data.  env.api is the
\* platform's answer to POST /file/music/upload/.
music_uploaded_with(tok, file_path, uploads, env) ==
    IF use_mock
    THEN IF tok.raised # None
         THEN [outcome |-> [tok EXCEPT !.value = NoDict], uploaded_music |-> uploads]
         ELSE LET mock == mock_upload_music(file_path, tok.value, tok.mock,
                                            uploads, env.rnd)
              IN  [outcome |->
                     [tok EXCEPT !.value = uploaded(mock.response).value,
                                 !.calls = Append(tok.calls,
                                    [api |-> "mock/upload_music",
                                     file_path |-> file_path,
                                     access_token |-> tok.value,
                                     answered |-> ClientAnswered(mock.response)])],
                   uploaded_music |-> mock.uploaded_music]
    ELSE IF tok.raised # None
    THEN [outcome |-> [tok EXCEPT !.value = upload_result(FALSE, None, tok.raised),
                                  !.raised = None, !.error_type = None],
          uploaded_music |-> uploads]
    ELSE IF ~env.readable
    THEN [outcome |-> [tok EXCEPT !.value = upload_result(FALSE, None, "FileNotFoundError")],
          uploaded_music |-> uploads]
    ELSE LET calls == Append(tok.calls,
                        [api |-> "file/music/upload", file_path |-> file_path,
                         access_token |-> tok.value,
                         answered |-> ClientAnswered(env.api)])
         IN  [outcome |->
                IF env.api = TransportError
                THEN [tok EXCEPT !.value = upload_result(FALSE, None, "RequestException"),
                                 !.calls = calls]
                ELSE IF uploaded(env.api).raised # None
                THEN [tok EXCEPT !.value = upload_result(FALSE, None,
                                                uploaded(env.api).raised),
                                 !.calls = calls]
                ELSE [tok EXCEPT !.value = uploaded(env.api).value, !.calls = calls],
              uploaded_music |-> uploads]

upload_music(file_path, uploads, c, f, m, t, env) ==
    Only({music_uploaded_with(tok, file_path, uploads, env) :
                tok \in {get_access_token(c, f, m, t, env.token)}})

-----------------------------------------------------------------------------
(* validators.py: format_validation_errors *)

\* ValidationError.__str__
error_str(error) ==
    error.field \o ": " \o error.message
        \o (IF error.suggestion # "" THEN " (" \o error.suggestion \o ")" ELSE "")

\* "\\n".join(lines): the separator is a backslash followed by n.
RECURSIVE join_lines(_)
join_lines(lines) ==
    IF Len(lines) = 0 THEN ""
    ELSE IF Len(lines) = 1 THEN lines[1]
    ELSE lines[1] \o "\\n" \o join_lines(Tail(lines))

format_validation_errors(errors) ==
    IF errors = <<>> THEN ""
    ELSE join_lines(<<"Validation Errors:">>
            \o [i \in 1..Len(errors) |-> "  " \o BULLET \o " " \o error_str(errors[i])])

-----------------------------------------------------------------------------
(* agent.py: TikTokAdsAgent.  A turn's outcome is the text returned or the *)
(* exception raised, the agent and manager state it leaves, the client     *)
(* operations it invoked and the requests that reached the platform.       *)

Message(role, content) == [role |-> role, content |-> content]

\* The manager state when no client operation ran.
Untouched(c, f, m) == Outcome(None, None, None, c, f, m, <<>>)

\* `self.conversation_history[-10:]` keeps the last 10 entries.
HISTORY_WINDOW == 10

\* seq[-n:] for n > 0
LastEntries(seq, n) ==
    IF Len(seq) <= n THEN seq ELSE SubSeq(seq, Len(seq) - n + 1, Len(seq))

\* The stand-ins for the texts get_music_validation_prompt and
\* get_error_interpretation_prompt format; neither is empty.
MUSIC_VALIDATION_PROMPT == "MUSIC_VALIDATION_PROMPT"
ERROR_INTERPRETATION_PROMPT == "ERROR_INTERPRETATION_PROMPT"

\* A _call_llm that sends the whole history.
call_llm_unwindowed(history, additional_context) ==
    history \o (IF additional_context # ""
                THEN <<[role |-> "user", content |-> additional_context]>>
                ELSE <<>>)

\* _call_llm: the messages sent to the model after the system prompt.  The
\* user_message argument is not used by the code.
call_llm(history, additional_context) ==
    LastEntries(history, HISTORY_WINDOW)
        \o (IF additional_context # ""
            THEN <<[role |-> "user", content |-> additional_context]>>
            ELSE <<>>)

\* llm_calls are the message lists of the calls to the model a handler made.
TurnOutcome(value, raised, data, history, o, next_action, invoked) ==
    [value |-> value, raised |-> raised, campaign_data |-> data,
     conversation_history |-> history, credentials |-> o.credentials,
     file |-> o.file, mock |-> o.mock, calls |-> o.calls,
     next_action |-> next_action, invoked |-> invoked, llm_calls |-> <<>>]

\* The text a handler built is appended to the history and returned.
Reply(response, data, history, o, next_action, invoked) ==
    TurnOutcome(response, None, data,
                Append(history, Message("assistant", response)),
                o, next_action, invoked)

\* `interpretation = self._call_llm("", prompt)` and
\* `AgentResponse(interpretation).get_conversation_response()`, then the
\* reply; an exception of the getter ends the turn.
ReplyInterpreted(prompt, interpretation, data, history, o, next_action, invoked) ==
    LET response == get_conversation_response(AgentResponse(interpretation))
        outcome ==
            IF response.raised # None
            THEN TurnOutcome(None, response.raised, data, history, o,
                             next_action, invoked)
            ELSE Reply(response.value, data, history, o, next_action, invoked)
    IN  [outcome EXCEPT !.llm_calls = <<call_llm(history, prompt)>>]

\* A music validation that, when the platform does not accept the id, marks
\* the draft but keeps the id in it.
music_validated_keeps_id(result, data, history, env) ==
    LET music_id == data.music_id
        validated == [data EXCEPT !.music_status = "validated"]
        rejected == [data EXCEPT !.music_status = "error"]
    IN  IF result.raised # None
        THEN TurnOutcome(None, result.raised, data, history, result,
                         "validate_music", <<"validate_music">>)
        ELSE IF result.value.valid
        THEN Reply("Great! Music ID '" \o music_id \o "' is valid and ready to use. "
                        \o (IF is_complete(validated)
                            THEN "I have all the information needed. Ready to submit?"
                            ELSE ""),
                   validated, history, result, "validate_music", <<"validate_music">>)
        ELSE ReplyInterpreted(MUSIC_VALIDATION_PROMPT, env.llm2, rejected, history, result,
                              "validate_music", <<"validate_music">>)

\* _handle_music_validation, from the result of validate_music on.
music_validated(result, data, history, env) ==
    LET music_id == data.music_id
        validated == [data EXCEPT !.music_status = "validated"]
        rejected == [data EXCEPT !.music_status = "error", !.music_id = None]
    IN  IF result.raised # None
        THEN TurnOutcome(None, result.raised, data, history, result,
                         "validate_music", <<"validate_music">>)
        ELSE IF result.value.valid
        THEN Reply("Great! Music ID '" \o music_id \o "' is valid and ready to use. "
                        \o (IF is_complete(validated)
                            THEN "I have all the information needed. Ready to submit?"
                            ELSE ""),
                   validated, history, result, "validate_music", <<"validate_music">>)
        ELSE ReplyInterpreted(MUSIC_VALIDATION_PROMPT, env.llm2, rejected, history, result,
                              "validate_music", <<"validate_music">>)

\* _handle_music_validation
handle_music_validation(data, history, c, f, m, t, env) ==
    IF ~Truthy(Get(data, "music_id", None))
    THEN TurnOutcome("Please provide a Music ID to validate.", None, data,
                     history, Untouched(c, f, m), "validate_music", <<>>)
    ELSE Only({music_validated(result, data, history, env) :
                result \in {validate_music(data.music_id, c, f, m, t, env)}})

\* A submission that never looks at the issues found.
submission_never_blocked(errors) == FALSE

\* `if errors:` in _handle_submission
submission_blocked(errors) == errors # <<>>

\* _handle_submission, from the result of create_ad on.
submitted(result, data, history, env) ==
        IF result.raised # None
        THEN TurnOutcome(None, result.raised, data, history, result,
                         "submit", <<"create_ad">>)
        ELSE IF result.value.success
        THEN Reply(PARTY \o " Success! Your ad campaign has been created.\n\n"
                        \o "Ad ID: " \o Format(result.value.ad_id) \o "\n"
                        \o "Campaign: " \o Format(data.campaign_name) \o "\n"
                        \o "Objective: " \o Format(data.objective) \o "\n"
                        \o "Status: Pending Review\n\n"
                        \o "Your ad will be reviewed by TikTok and should go live within 24 hours.",
                   data, history, result, "submit", <<"create_ad">>)
        ELSE IF result.value.error_details = NoDict
        THEN \* result.get("error_details", {}) is None, and None has no .get
             TurnOutcome(None, "AttributeError", data, history, result,
                         "submit", <<"create_ad">>)
        ELSE ReplyInterpreted(ERROR_INTERPRETATION_PROMPT, env.llm2, data, history, result,
                              "submit", <<"create_ad">>)

\* A submit gate that, when it rejects, takes the first failed field back out
\* of the draft.
submission_checked_rollback(errors, data, history, c, f, m, t, env) ==
    IF submission_blocked(errors)
    THEN Reply("Cannot submit - please fix these issues:\n"
                    \o format_validation_errors(errors),
               [data EXCEPT ![errors[1].field] = None],
               history, Untouched(c, f, m), "submit", <<>>)
    ELSE Only({submitted(result, data, history, env) :
                result \in {create_ad(data, c, f, m, t, env)}})

\* _handle_submission, from the issues validate_all found on.
submission_checked(errors, data, history, c, f, m, t, env) ==
    IF submission_blocked(errors)
    THEN Reply("Cannot submit - please fix these issues:\n"
                    \o format_validation_errors(errors),
               data, history, Untouched(c, f, m), "submit", <<>>)
    ELSE Only({submitted(result, data, history, env) :
                result \in {create_ad(data, c, f, m, t, env)}})

\* _handle_submission
handle_submission(data, history, c, f, m, t, env) ==
    Only({submission_checked(errors, data, history, c, f, m, t, env) :
            errors \in {validate_all(data)}})

\* _handle_rule_enforcement, and the last branch of process_user_input,
\* which does the same.
handle_rule_enforcement(r, data, history, c, f, m, next_action) ==
    LET response == get_conversation_response(r)
    IN  IF response.raised # None
        THEN TurnOutcome(None, response.raised, data, history,
                         Untouched(c, f, m), next_action, <<>>)
        ELSE Reply(response.value, data, history, Untouched(c, f, m),
                   next_action, <<>>)

\* A merge that skips the fields the model returned as null.
merge_collected_skipping_null(data, collected) ==
    IF collected.type = "dict"
    THEN Returned(Update(data, Restrict(collected.value,
                    {k \in DOMAIN collected.value : collected.value[k] # None})))
    ELSE IF collected.type = "str" /\ collected.value # ""
    THEN Raised("ValueError")
    ELSE IF collected.type = "int" /\ collected.value # 0
    THEN Raised("TypeError")
    ELSE Returned(data)

\* `if collected: self.campaign_data.update(collected)`: the draft, or the
\* exception dict.update raises for a non-empty str (ValueError) or a number
\* other than 0 (TypeError).
merge_collected(data, collected) ==
    IF collected.type = "dict"
    THEN Returned(IF DOMAIN collected.value = {} THEN data
                  ELSE Update(data, collected.value))
    ELSE IF collected.type = "str" /\ collected.value # ""
    THEN Raised("ValueError")
    ELSE IF collected.type = "int" /\ collected.value # 0
    THEN Raised("TypeError")
    ELSE Returned(data)

\* The dispatch on next_action in process_user_input.
handle_next_action(next_action, r, data, h, c, f, m, t, env) ==
    IF next_action = "validate_music"
    THEN handle_music_validation(data, h, c, f, m, t, env)
    ELSE IF next_action = "submit"
    THEN handle_submission(data, h, c, f, m, t, env)
    ELSE handle_rule_enforcement(r, data, h, c, f, m, next_action)

\* process_user_input, from the parsed answer on; h is the history with the
\* user's message.
process_parsed(r, data, h, c, f, m, t, env) ==
    LET collected == get_collected_data(r)
        merged == merge_collected(data, collected.value)
        next_action == get_next_action(r)
    IN  IF collected.raised # None
        THEN TurnOutcome(None, collected.raised, data, h, Untouched(c, f, m),
                         None, <<>>)
        ELSE IF merged.raised # None
        THEN TurnOutcome(None, merged.raised, data, h, Untouched(c, f, m),
                         None, <<>>)
        ELSE IF next_action.raised # None
        THEN TurnOutcome(None, next_action.raised, merged.value, h,
                         Untouched(c, f, m), None, <<>>)
        ELSE Only({handle_next_action(next_action.value, r, d, h, c, f, m, t, env) :
                    d \in {merged.value}})

\* process_user_input; env.llm is the text _call_llm returns for the history
\* with the user's message.
process_user_input(user_input, data, history, c, f, m, t, env) ==
    LET h == Append(history, Message("user", user_input))
    IN  Only({[o EXCEPT !.llm_calls = <<call_llm(h, "")>> \o @] :
                o \in {Only({process_parsed(r, data, h, c, f, m, t, env) :
                                r \in {AgentResponse(env.llm)}})}})

-----------------------------------------------------------------------------
(* The environment of a conversation turn *)

MaxTurns == 2

UserInputs == {"I want to create a TikTok ad campaign"}

\* The real platform's answers to GET /music/info/ and POST /ad/create/.
MusicResponses ==
    {[code |-> PyInt(0), message |-> "OK"],
     [code |-> PyStr("40300"), message |-> "Music not found"],
     TransportError}
AdResponses ==
    {[code |-> PyInt(0), message |-> "OK", data |-> [ad_id |-> "ad_1"]],
     [code |-> PyInt(0), message |-> "OK", data |-> NoDict],
     [code |-> PyInt(40100), message |-> "Access token is invalid"],
     [message |-> "Server busy"],
     TransportError}

\* Between turns the clock advances by a token's lifetime.
TurnClockSteps == {DEFAULT_EXPIRES_IN}

TurnEnv(llm, llm2, token, api, geo) ==
    [llm |-> llm, llm2 |-> llm2, token |-> token, api |-> api, geo |-> geo,
     rnd |-> 100000]

QuietEnv(llm) ==
    TurnEnv(llm, DocInterpretation, Env(DefaultConfig, TransportError, FirstDraws, "ok"),
            TransportError, FALSE)

\* The answers to a refresh of the credentials c requested while main() runs.
RefreshAnswers(c) ==
    IF ~AsksRefresh(c, now) \/ use_mock
    THEN {Env(DefaultConfig, TransportError, FirstDraws, "ok")}
    ELSE {Env(DefaultConfig, r, FirstDraws, "ok") :
            r \in {TransportError,
                   [code |-> 40101, message |-> "Invalid authorization code"],
                   [code |-> 0, message |-> "OK", data |-> FullTokenData("tok_2", 1)]}}

\* The answers to a refresh requested during a turn.
TurnRefreshEnvs == RefreshAnswers(credentials)

\* The action the model's answer asks for, when it parses to an object.
AskedAction(llm) ==
    LET a == get_next_action(AgentResponse(llm))
    IN  IF a.raised # None THEN "continue" ELSE a.value

\* The draft after the merge of what the model's answer collected.
MergedDraft(llm) ==
    LET collected == get_collected_data(AgentResponse(llm))
    IN  IF collected.raised # None
            \/ merge_collected(campaign_data, collected.value).raised # None
        THEN campaign_data
        ELSE merge_collected(campaign_data, collected.value).value

\* Whether the turn gets as far as a client operation.
ReachesClient(llm) ==
    \/ /\ AskedAction(llm) = "validate_music"
       /\ Truthy(Get(MergedDraft(llm), "music_id", None))
    \/ /\ AskedAction(llm) = "submit"
       /\ validate_all(MergedDraft(llm)) = <<>>

\* An input that does not reach the code is held fixed: only a turn that
\* gets as far as a client operation reads the token, the platform's answer
\* and the interpretation.
TurnEnvs(llm) ==
    IF ~ReachesClient(llm)
    THEN {QuietEnv(llm)}
    ELSE IF AskedAction(llm) = "validate_music"
    THEN {TurnEnv(llm, llm2, token, api, FALSE) :
            llm2 \in InterpretationOutputs, token \in TurnRefreshEnvs,
            api \in IF use_mock THEN {TransportError} ELSE MusicResponses}
    ELSE {TurnEnv(llm, llm2, token, api, geo) :
            llm2 \in InterpretationOutputs, token \in TurnRefreshEnvs,
            api \in IF use_mock THEN {TransportError} ELSE AdResponses,
            geo \in IF use_mock THEN BOOLEAN ELSE {FALSE}}

\* Config.TIKTOK_APP_ID and Config.TIKTOK_APP_SECRET when both are set.
SetConfig == [app_id |-> "app_1", secret |-> "secret_1"]

\* The configuration main() gets as far as setup_oauth with: in real mode
\* Config.validate() has found the app id and the secret set.
MainConfigs == IF use_mock THEN Configs ELSE {SetConfig}

\* The code setup_oauth hands to the exchange: the one the mock server
\* generates, or the one the user typed.  The real platform's answer is an
\* input of its own, so one code stands for all.
SetupCodes == IF use_mock THEN {"mock_auth_code_10000"} ELSE {"auth_code_1"}

\* The answers to the exchange of setup_oauth.
SetupEnvs ==
    IF use_mock
    THEN {Env(cfg, TransportError, FirstDraws, "ok") : cfg \in MainConfigs}
    ELSE {Env(cfg, r, FirstDraws, "ok") :
            cfg \in MainConfigs,
            r \in {[code |-> 40101, message |-> "Invalid authorization code"],
                   [code |-> 0, message |-> "OK", data |-> FullTokenData("tok_1", 1)],
                   [code |-> 0, message |-> "OK",
                    data |-> Restrict(FullTokenData("tok_1", 1),
                                      {"access_token", "refresh_token"})]}}

\* The token data an earlier run of the program received.
EarlierTokenData ==
    IF use_mock
    THEN mock_exchange_code_for_token("mock_auth_code_10000", "mock_app_id",
                                      "mock_secret", None, FirstDraws).response.data
    ELSE Restrict(FullTokenData("tok_1", 1), {"access_token", "refresh_token"})

\* main() starts a token's lifetime after time 0.
StartTime == DEFAULT_EXPIRES_IN

\* The credentials.json main() finds: none, the one a run at time 0 wrote,
\* which has expired, and the one a run just before wrote.
StoredFiles ==
    {NoFile, JsonFile(ExchangedCredentials(EarlierTokenData, 0)),
     JsonFile(ExchangedCredentials(EarlierTokenData, StartTime))}

-----------------------------------------------------------------------------
(* The agent as a state machine *)

\* setup_oauth of main.py: the manager is created, which loads the file;
\* has_valid_token refreshes credentials that have run out; only without a
\* valid token is a code exchanged.  The calls are those of both steps.
setup_oauth(code, f, t, refresh_env, exchange_env) ==
    LET h == has_valid_token(load_credentials(f), f, None, t, refresh_env)
    IN  IF h.raised # None \/ h.value
        THEN h
        ELSE Only({[x EXCEPT !.value = TRUE, !.calls = h.calls \o @] :
                    x \in {exchange_code_for_token(code, h.credentials, h.file,
                                                   h.mock, t, exchange_env)}})

\* Where main() stands: before setup_oauth, before the start_conversation
\* that follows setup_oauth and reset(), or at the prompt of its loop.
AtSetup == ret.op = "__init__"
AtStart == ret.op \in {"setup_oauth", "reset"}
AtPrompt == ~AtSetup /\ ~AtStart

\* setup_oauth as main() calls it.  An exception of it ends the process
\* (sys.exit(1), main.py 80-84 and 105-107).
SetupOauth(code, refresh_env, exchange_env) ==
    /\ running
    /\ AtSetup
    /\ \E o \in {setup_oauth(code, credentials_file, now, refresh_env, exchange_env)} :
           /\ Finish("setup_oauth", o)
           /\ running' = (o.raised = None)
    /\ UNCHANGED <<uploaded_music, callback, use_mock, now, ticks, agentVars>>

\* TikTokAdsAgent.process_user_input, in a conversation of at most `bound`
\* turns.  An exception it does not catch ends the process (main.py).
ProcessUserInputWithin(bound, user_input, env) ==
    /\ running
    /\ turns < bound
    /\ \E o \in {process_user_input(user_input, campaign_data, conversation_history,
                                     credentials, credentials_file,
                                     mock_access_token, now, env)} :
           /\ campaign_data' = o.campaign_data
           /\ conversation_history' = o.conversation_history
           /\ credentials' = o.credentials
           /\ credentials_file' = o.file
           /\ mock_access_token' = o.mock
           /\ running' = (o.raised = None)
           /\ ret' = [op |-> "process_user_input", user_input |-> user_input,
                      llm |-> env.llm,
                      value |-> o.value, raised |-> o.raised,
                      next_action |-> o.next_action, invoked |-> o.invoked,
                      calls |-> o.calls, llm_calls |-> o.llm_calls]
    /\ turns' = turns + 1
    /\ UNCHANGED <<uploaded_music, callback, use_mock, now, ticks>>

\* A reset that empties the draft and keeps the history.
Reset_keeping_history ==
    /\ running
    /\ campaign_data' = InitialCampaignData
    /\ ret' = [op |-> "reset"]
    /\ UNCHANGED <<uploaded_music, callback, conversation_history, turns,
                   tokenVars, use_mock, now, ticks, running>>

\* TikTokAdsAgent.reset
Reset ==
    /\ running
    /\ conversation_history' = <<>>
    /\ campaign_data' = InitialCampaignData
    /\ ret' = [op |-> "reset"]
    /\ UNCHANGED <<uploaded_music, callback, turns, tokenVars, use_mock, now, ticks, running>>

\* `initial_message` of start_conversation
INITIAL_MESSAGE == "I want to create a TikTok ad campaign"

\* The places where a turn waits and Ctrl-C cuts it: the first call to the
\* model, the refresh request get_access_token sends for credentials that
\* have run out, the request to the real platform, the call that asks the
\* model to interpret a failure.  Ctrl-C at the prompt itself changes
\* nothing.
InterruptPoints == {"first_call", "refresh", "request", "second_call"}

\* The outcome of a turn that a KeyboardInterrupt cut: nothing is returned
\* and the history ends with the user's message.
cut(o, h) ==
    [o EXCEPT !.value = None, !.raised = "KeyboardInterrupt",
              !.conversation_history = h]

\* The client operation a turn goes on to after the merge, if any.
operation_after(merged, next_action) ==
    IF merged.raised # None \/ next_action.raised # None THEN None
    ELSE IF next_action.value = "validate_music"
            /\ Truthy(Get(merged.value, "music_id", None))
    THEN "validate_music"
    ELSE IF next_action.value = "submit"
            /\ ~submission_blocked(validate_all(merged.value))
    THEN "create_ad"
    ELSE None

\* The refresh request of _refresh_token, sent and not answered when Ctrl-C
\* arrives.
waiting_refresh(c) ==
    [api |-> "oauth2/refresh_token", refresh_token |-> c.refresh_token,
     answered |-> "interrupted"]

\* The request of validate_music or create_ad, sent with the token of tok
\* and not answered when Ctrl-C arrives.
waiting_request(operation, draft, tok) ==
    IF operation = "validate_music"
    THEN [api |-> "music/info", music_id |-> draft.music_id,
          access_token |-> tok.value, answered |-> "interrupted"]
    ELSE [api |-> "ad/create",
          payload |-> build_ad_payload(draft, tok.credentials).value,
          access_token |-> tok.value, answered |-> "interrupted"]

\* The turn cut while the refresh request of its client operation waits:
\* the draft is merged, the credentials are the ones that have run out.
cut_at_refresh(operation, merged, next_action, h, c, f, m, t) ==
    IF use_mock \/ operation = None \/ ~AsksRefresh(c, t)
    THEN {}
    ELSE {[cut(TurnOutcome(None, None, merged.value, h,
                           Outcome(None, None, None, c, f, m, <<waiting_refresh(c)>>),
                           next_action.value, <<operation>>), h)
             EXCEPT !.llm_calls = <<call_llm(h, "")>>]}

\* The turn cut while its request to the real platform waits: the token
\* has been fetched, the draft merged, the request sent, and no result is
\* in.
cut_at_request(operation, merged, next_action, h, tok) ==
    IF use_mock \/ operation = None \/ tok.raised # None
    THEN {}
    ELSE IF operation = "create_ad"
            /\ build_ad_payload(merged.value, tok.credentials).raised # None
    THEN {}
    ELSE {[cut(TurnOutcome(None, None, merged.value, h, tok,
                           next_action.value, <<operation>>), h)
             EXCEPT !.llm_calls = <<call_llm(h, "")>>,
                    !.calls = Append(tok.calls,
                                     waiting_request(operation, merged.value, tok))]}

\* The merge of process_user_input, an exception of the getter included.
merged_draft(r, data) ==
    Only({IF collected.raised # None THEN Raised(collected.raised)
          ELSE merge_collected(data, collected.value) :
            collected \in {get_collected_data(r)}})

\* The state process_user_input leaves when a KeyboardInterrupt cuts it at
\* the point `at`, as a set: empty when the turn does not get there.
interrupted_turn(at, user_input, data, history, c, f, m, t, env) ==
    IF at = "first_call"
    THEN {[cut(TurnOutcome(None, None, data, h, Untouched(c, f, m), None, <<>>), h)
             EXCEPT !.llm_calls = <<call_llm(h, "")>>] :
            h \in {Append(history, Message("user", user_input))}}
    ELSE IF at = "refresh"
    THEN UNION {cut_at_refresh(operation_after(merged, next_action), merged,
                               next_action, h, c, f, m, t) :
                    h \in {Append(history, Message("user", user_input))},
                    merged \in {merged_draft(AgentResponse(env.llm), data)},
                    next_action \in {get_next_action(AgentResponse(env.llm))}}
    ELSE IF at = "request"
    THEN UNION {cut_at_request(operation_after(merged, next_action), merged,
                               next_action, h, tok) :
                    h \in {Append(history, Message("user", user_input))},
                    merged \in {merged_draft(AgentResponse(env.llm), data)},
                    next_action \in {get_next_action(AgentResponse(env.llm))},
                    tok \in {get_access_token(c, f, m, t, env.token)}}
    ELSE {cut(whole, Append(history, Message("user", user_input))) :
            whole \in {o \in {process_user_input(user_input, data, history,
                                                   c, f, m, t, env)} :
                            Len(o.llm_calls) = 2}}

\* The places where setup_oauth waits in real mode: the refresh request of
\* has_valid_token, the input() that reads the code, the exchange request.
SetupInterruptPoints == {"refresh", "input", "exchange"}

\* The state setup_oauth leaves when a KeyboardInterrupt cuts it at the
\* point `at`, as a set: empty when it does not get there.
interrupted_setup(at, code, f, t, refresh_env) ==
    IF use_mock THEN {}
    ELSE IF at = "refresh"
    THEN {Outcome(FALSE, "KeyboardInterrupt", None, c, f, None,
                  <<waiting_refresh(c)>>) :
            c \in {c \in {load_credentials(f)} : AsksRefresh(c, t)}}
    ELSE {[h EXCEPT !.raised = "KeyboardInterrupt",
                    !.calls = IF at = "input" THEN @
                              ELSE Append(@, [api |-> "oauth2/access_token",
                                              auth_code |-> code,
                                              answered |-> "interrupted"])] :
            h \in {h \in {has_valid_token(load_credentials(f), f, None, t,
                                           refresh_env)} :
                        h.raised = None /\ ~h.value}}

\* Ctrl-C while setup_oauth waits: neither `except OAuthError` nor `except
\* Exception` catches it, and main() ends with it.
SetupInterrupt(at, code, refresh_env) ==
    /\ running
    /\ AtSetup
    /\ \E o \in interrupted_setup(at, code, credentials_file, now, refresh_env) :
           Finish("setup_oauth", o)
    /\ running' = FALSE
    /\ UNCHANGED <<uploaded_music, callback, use_mock, now, ticks, agentVars>>

\* A turn cut by Ctrl-C.  In the loop of main() it is caught and the loop
\* goes on (`except KeyboardInterrupt: continue`, main.py 160-162); in the
\* start_conversation that follows setup_oauth nothing catches it.
KeyboardInterrupt(bound, at, user_input, env) ==
    /\ running
    /\ turns < bound
    /\ \E o \in interrupted_turn(at, user_input, campaign_data, conversation_history,
                                   credentials, credentials_file,
                                   mock_access_token, now, env) :
           /\ campaign_data' = o.campaign_data
           /\ conversation_history' = o.conversation_history
           /\ credentials' = o.credentials
           /\ credentials_file' = o.file
           /\ mock_access_token' = o.mock
           /\ running' = (ret.op # "setup_oauth")
           /\ ret' = [op |-> "keyboard_interrupt", at |-> at,
                      user_input |-> user_input, llm |-> env.llm,
                      value |-> o.value, raised |-> o.raised,
                      next_action |-> o.next_action, invoked |-> o.invoked,
                      calls |-> o.calls, llm_calls |-> o.llm_calls]
    /\ turns' = turns + 1
    /\ UNCHANGED <<uploaded_music, callback, use_mock, now, ticks>>

\* An input that does not reach the code is held fixed: a turn cut at the
\* first call has read nothing of the model's answer, one cut at the refresh
\* nothing of the token endpoint's, one cut at the refresh or at the request
\* nothing of the platform's, and none has read the interpretation.
InterruptOutputs(at, outputs) ==
    IF at = "first_call" THEN {CHOOSE llm \in outputs : TRUE} ELSE outputs

InterruptEnvs(at, envs) ==
    IF at = "first_call"
    THEN {CHOOSE env \in envs : TRUE}
    ELSE {env \in envs :
            /\ env.llm2 = DocInterpretation
            /\ at = "refresh" => env.token.response = TransportError
            /\ at \in {"refresh", "request"} => env.api = TransportError}

\* The state main() starts in: no manager and no agent yet, and the file an
\* earlier run may have left.
Init ==
    /\ campaign_data = InitialCampaignData
    /\ conversation_history = <<>>
    /\ turns = 0
    /\ use_mock \in BOOLEAN
    /\ credentials_file \in StoredFiles
    /\ credentials = NoDict
    /\ mock_access_token = None
    /\ uploaded_music = NoUploads
    /\ callback = NoCallback
    /\ now = StartTime
    /\ ticks = 0
    /\ running = TRUE
    /\ ret = [op |-> "__init__"]

\* main() calls setup_oauth (main.py 103-107).
Setup ==
    \E code \in SetupCodes :
        \E refresh_env \in RefreshAnswers(load_credentials(credentials_file)) :
            \E exchange_env \in SetupEnvs :
                SetupOauth(code, refresh_env, exchange_env)

\* Ctrl-C arrives while setup_oauth waits.
SetupCut ==
    \E at \in SetupInterruptPoints : \E code \in SetupCodes :
        \E refresh_env \in RefreshAnswers(load_credentials(credentials_file)) :
            SetupInterrupt(at, code, refresh_env)

\* What a turn is given: after setup_oauth and after reset() it is
\* start_conversation, whose message is fixed (main.py 129 and 152); at the
\* prompt it is what the user types (main.py 157).
PromptInputs(inputs) == IF AtStart THEN {INITIAL_MESSAGE} ELSE inputs

\* The user types `reset` (main.py 149-150); start_conversation follows.
ResetCommand(bound) == AtPrompt /\ turns < bound /\ Reset

\* main(): setup_oauth, which Ctrl-C may cut, the first turn, then the loop,
\* in which the user types a message or `reset` and Ctrl-C cuts a turn.
\* Time passes at the prompt.
Next ==
    \/ \E d \in TurnClockSteps : AtPrompt /\ Tick(d)
    \/ Setup
    \/ SetupCut
    \/ \E user_input \in PromptInputs(UserInputs) : \E llm \in LlmOutputs :
            \E env \in TurnEnvs(llm) :
                ~AtSetup /\ ProcessUserInputWithin(MaxTurns, user_input, env)
    \/ ResetCommand(MaxTurns)
    \/ \E at \in InterruptPoints : \E user_input \in PromptInputs(UserInputs) :
            \E llm \in InterruptOutputs(at, LlmOutputs) :
                \E env \in InterruptEnvs(at, TurnEnvs(llm)) :
                    ~AtSetup /\ KeyboardInterrupt(MaxTurns, at, user_input, env)

Spec == Init /\ [][Next]_vars

-----------------------------------------------------------------------------
(* A long conversation: more turns than the history window holds, with few *)
(* answers of the model.                                                   *)

MaxChatTurns == 6

ChatInputs == {"Hello"}

\* An answer that continues, and one whose music validation fails and has
\* the model asked a second time.
ChatOutputs == {DocDraft, DocBadMusic}

\* main() starts without a credentials.json.
InitChat == InitToken

\* main() with a platform that does not answer and interpretations that are
\* a text.
NextChat ==
    \/ Setup
    \/ SetupCut
    \/ \E user_input \in PromptInputs(ChatInputs) : \E llm \in ChatOutputs :
            ~AtSetup /\ ProcessUserInputWithin(MaxChatTurns, user_input, QuietEnv(llm))
    \/ ResetCommand(MaxChatTurns)
    \/ \E at \in InterruptPoints : \E user_input \in PromptInputs(ChatInputs) :
            \E llm \in InterruptOutputs(at, ChatOutputs) :
                ~AtSetup /\ KeyboardInterrupt(MaxChatTurns, at, user_input, QuietEnv(llm))

SpecChat == InitChat /\ [][NextChat]_vars

-----------------------------------------------------------------------------
(* The API client used directly: music validation, music upload and ad     *)
(* creation, between authorizations and clock steps.                       *)

ClientMusicIds == {"music_123", "music_not_found", "music_custom_1000"}
ClientFiles == {"song.mp3"}
UploadRandomInts == {1000, 9999}

\* Drafts that pass the submit gate.
ClientDrafts ==
    {d \in {[campaign_name |-> "Summer Sale", objective |-> "Traffic",
              ad_text |-> "Buy now", cta |-> "SHOP_NOW", music_id |-> None,
              music_status |-> "not_requested"],
             [campaign_name |-> "Summer Sale", objective |-> "Conversions",
              ad_text |-> "Buy now", cta |-> "SHOP_NOW", music_id |-> "music_123",
              music_status |-> "validated"]} :
        validate_all(d) = <<>>}

\* The real platform's answers to POST /file/music/upload/.
UploadResponses ==
    {[code |-> PyInt(0), message |-> "OK", data |-> [music_id |-> "music_up_1"]],
     [code |-> PyInt(0), message |-> "OK", data |-> NoDict],
     [code |-> PyInt(40100), message |-> "Access token is invalid"],
     TransportError}

ClientEnv(token, api, geo, rnd, readable) ==
    [token |-> token, api |-> api, geo |-> geo, rnd |-> rnd, readable |-> readable]

\* Only an operation that obtained a token reads the platform's answer.
ClientEnvs(responses, rnds, geos, readables) ==
    {ClientEnv(token, api, geo, rnd, readable) :
        token \in TurnRefreshEnvs,
        api \in IF use_mock THEN {TransportError} ELSE responses,
        geo \in IF use_mock THEN geos ELSE {FALSE},
        rnd \in IF use_mock THEN rnds ELSE {100000},
        readable \in IF use_mock THEN {TRUE} ELSE readables}

\* A client operation ends: the manager state it leaves, its result or
\* exception, the requests issued, and what its get_access_token call gave.
FinishClient(op, tok, o) ==
    /\ credentials' = o.credentials
    /\ credentials_file' = o.file
    /\ mock_access_token' = o.mock
    /\ ret' = [op |-> op, value |-> o.value, raised |-> o.raised,
               error_type |-> o.error_type, calls |-> o.calls,
               token |-> [value |-> tok.value, raised |-> tok.raised]]

\* TikTokAPIClient.validate_music
ClientValidateMusic(music_id, env) ==
    /\ running
    /\ \E tok \in {get_access_token(credentials, credentials_file,
                                    mock_access_token, now, env.token)} :
       \E o \in {validate_music(music_id, credentials, credentials_file,
                                mock_access_token, now, env)} :
            FinishClient("validate_music", tok, o)
    /\ UNCHANGED <<uploaded_music, callback, use_mock, now, ticks, running, agentVars>>

\* TikTokAPIClient.upload_music
ClientUploadMusic(file_path, env) ==
    /\ running
    /\ \E tok \in {get_access_token(credentials, credentials_file,
                                    mock_access_token, now, env.token)} :
       \E u \in {upload_music(file_path, uploaded_music, credentials,
                              credentials_file, mock_access_token, now, env)} :
            /\ FinishClient("upload_music", tok, u.outcome)
            /\ uploaded_music' = u.uploaded_music
    /\ UNCHANGED <<callback, use_mock, now, ticks, running, agentVars>>

\* TikTokAPIClient.create_ad
ClientCreateAd(data, env) ==
    /\ running
    /\ \E tok \in {get_access_token(credentials, credentials_file,
                                    mock_access_token, now, env.token)} :
       \E o \in {create_ad(data, credentials, credentials_file,
                           mock_access_token, now, env)} :
            FinishClient("create_ad", tok, o)
    /\ UNCHANGED <<uploaded_music, callback, use_mock, now, ticks, running, agentVars>>

InitClient == InitToken

NextClient ==
    \/ \E d \in TurnClockSteps : Tick(d)
    \/ \E code \in SetupCodes : \E env \in SetupEnvs : ExchangeCode(code, env)
    \/ \E music_id \in ClientMusicIds :
            \E env \in ClientEnvs(MusicResponses, {100000}, {FALSE}, {TRUE}) :
                ClientValidateMusic(music_id, env)
    \/ \E file_path \in ClientFiles :
            \E env \in ClientEnvs(UploadResponses, UploadRandomInts, {FALSE}, BOOLEAN) :
                ClientUploadMusic(file_path, env)
    \/ \E data \in ClientDrafts :
            \E env \in ClientEnvs(AdResponses, {100000}, BOOLEAN, {TRUE}) :
                ClientCreateAd(data, env)

SpecClient == InitClient /\ [][NextClient]_vars

-----------------------------------------------------------------------------
(* oauth_manager.py: start_oauth_callback_server.  The caller's thread     *)
(* polls received_code once a second; the listener thread runs callback()  *)
(* for every request that arrives.  callback.pc is the caller's position,  *)
(* callback.request the arguments of the last request, callback.results    *)
(* what the function handed back to its caller.                            *)

\* `timeout = 300`
CALLBACK_TIMEOUT == 300

\* A handler that looks at the code only.
callback_ignoring_error(received_code, code, error) ==
    IF Truthy(code) THEN code ELSE received_code

\* callback(): received_code["code"] after a request with these arguments.
callback_handler(received_code, code, error) ==
    IF Truthy(error) THEN received_code
    ELSE IF Truthy(code) THEN code
    ELSE received_code

\* `while received_code["code"] is None and elapsed < timeout`
waiting(received_code, elapsed) ==
    received_code = None /\ elapsed < CALLBACK_TIMEOUT

CallbackCodes == {None, "", "auth_code_1", "auth_code_2"}
CallbackErrors == {None, "access_denied"}

callbackFrame ==
    <<campaign_data, conversation_history, turns, tokenVars, uploaded_music,
      use_mock, now, ticks, running>>

\* The function is called: the listener thread starts, elapsed = 0.
StartCallbackServer ==
    /\ callback.pc = "not_called"
    /\ callback' = [callback EXCEPT !.pc = "loop"]
    /\ ret' = [op |-> "start_oauth_callback_server"]
    /\ UNCHANGED callbackFrame

\* The loop condition is evaluated.
LoopTest ==
    /\ callback.pc = "loop"
    /\ callback' = [callback EXCEPT
            !.pc = IF waiting(callback.received_code, callback.elapsed)
                   THEN "sleep" ELSE "check"]
    /\ UNCHANGED <<callbackFrame, ret>>

\* `time.sleep(1); elapsed += 1`
Sleep ==
    /\ callback.pc = "sleep"
    /\ callback' = [callback EXCEPT !.pc = "loop", !.elapsed = @ + 1]
    /\ UNCHANGED <<callbackFrame, ret>>

\* `if received_code["code"] is None: raise OAuthError("TIMEOUT", ...)`
FinalCheck ==
    /\ callback.pc = "check"
    /\ callback' =
            IF callback.received_code = None
            THEN [callback EXCEPT !.pc = "done",
                                  !.results = Append(@, OAuthError("TIMEOUT"))]
            ELSE [callback EXCEPT !.pc = "return"]
    /\ UNCHANGED <<callbackFrame, ret>>

\* `return received_code["code"]`
ReturnCode ==
    /\ callback.pc = "return"
    /\ callback' = [callback EXCEPT
            !.pc = "done",
            !.results = Append(@, [returned |-> callback.received_code])]
    /\ UNCHANGED <<callbackFrame, ret>>

\* The caller's thread.
CallerStep == StartCallbackServer \/ LoopTest \/ Sleep \/ FinalCheck \/ ReturnCode

\* A request to /callback, handled by the listener thread, which keeps
\* running after the function returned.
Callback(code, error) ==
    /\ callback.pc # "not_called"
    /\ callback' = [callback EXCEPT
            !.received_code = callback_handler(@, code, error),
            !.request = [code |-> code, error |-> error]]
    /\ UNCHANGED <<callbackFrame, ret>>

InitCallback ==
    /\ campaign_data = InitialCampaignData
    /\ conversation_history = <<>>
    /\ turns = 0
    /\ credentials_file = NoFile
    /\ credentials = NoDict
    /\ use_mock = FALSE
    /\ mock_access_token = None
    /\ uploaded_music = NoUploads
    /\ callback = NoCallback
    /\ now = 0
    /\ ticks = 0
    /\ running = TRUE
    /\ ret = [op |-> "__init__"]

NextCallback ==
    \/ StartCallbackServer
    \/ LoopTest
    \/ Sleep
    \/ FinalCheck
    \/ ReturnCode
    \/ \E code \in CallbackCodes : \E error \in CallbackErrors : Callback(code, error)

\* The caller's thread keeps running: time.sleep(1) returns.
SpecCallback ==
    InitCallback /\ [][NextCallback]_vars /\ WF_vars(CallerStep)

-----------------------------------------------------------------------------
(* The rule engine on its own: every draft over the values below, with     *)
(* validate_all and is_complete applied to it.                             *)

CampaignNames ==
    {None, "", "  ", "A", "Ab", " Ab ", "Ab" \o VT, "Abc", " Abc\n", "Summer Sale"}
Objectives == {None, "", "Traffic", "Conversions", "Bogus"}
AdTexts == {None, "", "Buy now", Repeat("a", AD_TEXT_MAX_LENGTH),
            Repeat("a", AD_TEXT_MAX_LENGTH + 1), Repeat("a", AD_TEXT_MAX_LENGTH + 12)}
Ctas == {None, "", "SHOP_NOW", "BAD"}
MusicIds == {None, "", "music_123"}
MusicStatuses == {"not_requested", "validated", "error"}

Drafts ==
    [campaign_name : CampaignNames, objective : Objectives, ad_text : AdTexts,
     cta : Ctas, music_id : MusicIds, music_status : MusicStatuses]

\* The positions of the issues a list reports on a field.
IssuesOn(errors, field) == {i \in 1..Len(errors) : errors[i].field = field}

\* A validate_all that records its verdict in the draft it was given.
ValidateAll_recording ==
    /\ ret' = [op |-> "validate_all", value |-> validate_all(campaign_data)]
    /\ campaign_data' =
            [campaign_data EXCEPT !.music_status =
                IF IssuesOn(validate_all(campaign_data), "music_id") # {}
                THEN "error" ELSE @]
    /\ UNCHANGED <<uploaded_music, callback, conversation_history, turns, tokenVars,
                   use_mock, now, ticks, running>>

\* CampaignValidator.validate_all(campaign_data)
ValidateAll ==
    /\ ret' = [op |-> "validate_all", value |-> validate_all(campaign_data)]
    /\ UNCHANGED <<uploaded_music, callback, campaign_data, conversation_history, turns, tokenVars,
                   use_mock, now, ticks, running>>

\* CampaignValidator.is_complete(campaign_data)
IsComplete ==
    /\ ret' = [op |-> "is_complete", value |-> is_complete(campaign_data)]
    /\ UNCHANGED <<uploaded_music, callback, campaign_data, conversation_history, turns, tokenVars,
                   use_mock, now, ticks, running>>

InitRules ==
    /\ campaign_data \in Drafts
    /\ conversation_history = <<>>
    /\ turns = 0
    /\ credentials_file = NoFile
    /\ credentials = NoDict
    /\ use_mock = TRUE
    /\ mock_access_token = None
    /\ uploaded_music = NoUploads
    /\ callback = NoCallback
    /\ now = 0
    /\ ticks = 0
    /\ running = TRUE
    /\ ret = [op |-> "__init__"]

NextRules == ValidateAll \/ IsComplete

SpecRules == InitRules /\ [][NextRules]_vars

-----------------------------------------------------------------------------
(* Properties of the rule engine, checked under SpecRules *)

FieldOrder == <<"campaign_name", "objective", "ad_text", "cta", "music_id">>

\* The position of a field in the check order.
FieldIndex(field) == CHOOSE i \in 1..Len(FieldOrder) : FieldOrder[i] = field

\* C2: for a draft with objective Conversions and music_id null or empty,
\* validate_all reports exactly one issue on music_id; for a draft with
\* objective Traffic, whatever its music_id, it reports none on music_id.
C2_MusicIssueByObjective ==
    ret.op = "validate_all" =>
        /\ (campaign_data.objective = "Conversions"
                /\ campaign_data.music_id \in {None, ""})
            => Cardinality(IssuesOn(ret.value, "music_id")) = 1
        /\ campaign_data.objective = "Traffic"
            => IssuesOn(ret.value, "music_id") = {}

\* validate_all reported the music issue of a Conversions draft whose
\* music_id is the empty string and whose other fields are valid.
C2_Witness ==
    /\ ret.op = "validate_all"
    /\ campaign_data.objective = "Conversions"
    /\ campaign_data.music_id = ""
    /\ Len(ret.value) = 1
    /\ ret.value[1].field = "music_id"

\* A required field of the draft is neither null nor empty.
Present(data, field) == data[field] # None /\ data[field] # ""

\* The music-eligibility rule: the objective does not require music while
\* the music_id is missing (null or empty).
MusicRulePasses(data) ==
    ~(data.objective = "Conversions" /\ ~Present(data, "music_id"))

\* C6 as stated: is_complete is true exactly when the four fields are
\* non-null and the music-eligibility rule passes.
C6_Original ==
    ret.op = "is_complete" =>
        (ret.value <=>
            /\ \A i \in 1..Len(required_fields) :
                    campaign_data[required_fields[i]] # None
            /\ MusicRulePasses(campaign_data))

\* C6, amended: is_complete is true exactly when campaign_name, objective,
\* ad_text and cta are all non-null and non-empty and the music-eligibility
\* rule passes; the result is the same for every music_status.
C6_CompleteIffPresentAndMusicRule ==
    ret.op = "is_complete" =>
        /\ ret.value <=>
            /\ \A i \in 1..Len(required_fields) :
                    Present(campaign_data, required_fields[i])
            /\ MusicRulePasses(campaign_data)
        /\ \A status \in MusicStatuses :
            is_complete([campaign_data EXCEPT !.music_status = status]) = ret.value

\* is_complete answered true for a Conversions draft with a music_id that
\* was never validated.
C6_Witness ==
    /\ ret.op = "is_complete"
    /\ ret.value
    /\ campaign_data.objective = "Conversions"
    /\ campaign_data.music_id = "music_123"
    /\ campaign_data.music_status = "not_requested"

\* The rules of the four required fields, stated on the draft.
NameViolated(data) ==
    ~Present(data, "campaign_name")
        \/ Len(strip(data.campaign_name)) < CAMPAIGN_NAME_MIN_LENGTH
ObjectiveViolated(data) == data.objective \notin {"Traffic", "Conversions"}
AdTextViolated(data) ==
    ~Present(data, "ad_text") \/ Len(data.ad_text) > AD_TEXT_MAX_LENGTH
CtaViolated(data) == data.cta \notin Range(VALID_CTAS)

\* C7: validate_all returns at most one issue per field, in the order
\* campaign_name, objective, ad_text, cta, music_id; a draft that violates
\* the name, objective, ad_text and cta rules at once gets at least four
\* issues, the first four on those fields in that order.
C7_OneIssuePerFieldInOrder ==
    ret.op = "validate_all" =>
        /\ \A i, j \in 1..Len(ret.value) :
                i < j => FieldIndex(ret.value[i].field) < FieldIndex(ret.value[j].field)
        /\ \A i \in 1..Len(ret.value) : ret.value[i].field \in Range(FieldOrder)
        /\ (/\ NameViolated(campaign_data)
            /\ ObjectiveViolated(campaign_data)
            /\ AdTextViolated(campaign_data)
            /\ CtaViolated(campaign_data))
            => /\ Len(ret.value) >= 4
               /\ ret.value[1].field = "campaign_name"
               /\ ret.value[2].field = "objective"
               /\ ret.value[3].field = "ad_text"
               /\ ret.value[4].field = "cta"

\* validate_all reported four issues for the draft "Ab", "Bogus", 101
\* characters of ad text and "BAD".
C7_Witness ==
    /\ ret.op = "validate_all"
    /\ campaign_data.campaign_name = "Ab"
    /\ campaign_data.objective = "Bogus"
    /\ campaign_data.ad_text = Repeat("a", AD_TEXT_MAX_LENGTH + 1)
    /\ campaign_data.cta = "BAD"
    /\ Len(ret.value) = 4

\* C11: for a draft whose objective is null or empty, validate_music_logic
\* returns no issue whatever the music_id, and validate_all reports an issue
\* on objective and none on music_id.
C11_MusicRuleSkippedWithoutObjective ==
    (ret.op = "validate_all" /\ campaign_data.objective \in {None, ""}) =>
        /\ \A music_id \in MusicIds :
                validate_music_logic(campaign_data.objective, music_id) = NoError
        /\ IssuesOn(ret.value, "objective") # {}
        /\ IssuesOn(ret.value, "music_id") = {}

\* validate_all reported on a draft with an empty objective and no music: the
\* objective issue is there, a music issue is not.
C11_Witness ==
    /\ ret.op = "validate_all"
    /\ campaign_data.objective = ""
    /\ campaign_data.music_id = None
    /\ campaign_data.campaign_name = "Summer Sale"
    /\ campaign_data.ad_text = "Buy now"
    /\ campaign_data.cta = "SHOP_NOW"
    /\ Len(ret.value) = 1
    /\ ret.value[1].field = "objective"

\* C12: an ad text of at most 100 characters gets no ad_text issue; a text
\* of n > 100 characters gets exactly one, whose suggestion gives the length
\* n and asks to shorten by n - 100 characters (1 for 101 characters).
C12_AdTextLimitAndOverage ==
    (ret.op = "validate_all" /\ Truthy(campaign_data.ad_text)) =>
        LET n == Len(campaign_data.ad_text)
            issues == IssuesOn(ret.value, "ad_text")
        IN  IF n <= 100
            THEN issues = {}
            ELSE /\ Cardinality(issues) = 1
                 /\ \A i \in issues :
                        ret.value[i].suggestion =
                            "Current length: " \o ToString(n)
                                \o " characters. Please shorten by "
                                \o ToString(n - 100) \o " characters."

\* validate_all reported on a draft whose ad text has 101 characters: the
\* one ad_text issue asks to shorten by 1 character.
C12_Witness ==
    /\ ret.op = "validate_all"
    /\ Len(campaign_data.ad_text) = 101
    /\ \E i \in 1..Len(ret.value) :
            /\ ret.value[i].field = "ad_text"
            /\ Contains(ret.value[i].suggestion, "shorten by 1 characters")

\* The length of a text without its leading and trailing blanks.
RECURSIVE TrimmedLen(_)
TrimmedLen(s) ==
    IF s = "" THEN 0
    ELSE IF SubSeq(s, 1, 1) \in {" ", "\n", "\t", VT} THEN TrimmedLen(Tail(s))
    ELSE IF SubSeq(s, Len(s), Len(s)) \in {" ", "\n", "\t", VT}
    THEN TrimmedLen(SubSeq(s, 1, Len(s) - 1))
    ELSE Len(s)

\* C13: a non-empty campaign name gets a campaign_name issue exactly when
\* its length without leading and trailing blanks is below 3; "Ab" and
\* " Ab " get one, "Abc" and a padded "Abc" get none.
C13_NameMinimumOnTrimmedLength ==
    (ret.op = "validate_all" /\ Truthy(campaign_data.campaign_name)) =>
        /\ IssuesOn(ret.value, "campaign_name") # {}
                <=> TrimmedLen(campaign_data.campaign_name) < 3
        /\ campaign_data.campaign_name
                \in {"A", "Ab", " Ab ", "Ab" \o VT, "  "}
                => IssuesOn(ret.value, "campaign_name") # {}
        /\ campaign_data.campaign_name \in {"Abc", " Abc\n", "Summer Sale"}
                => IssuesOn(ret.value, "campaign_name") = {}

\* validate_all reported the name " Ab ", four characters as typed and two
\* without the blanks, as too short.
C13_Witness ==
    /\ ret.op = "validate_all"
    /\ campaign_data.campaign_name = " Ab "
    /\ ret.value # <<>>
    /\ ret.value[1].field = "campaign_name"
    /\ ret.value[1].suggestion = "Current length: 2 characters"

\* C14: validate_all and is_complete are pure.  A call leaves the draft, the
\* conversation history, the credentials, the credentials file and the mock
\* platform's token as they were, its result is a function of the draft
\* alone, and a second call on the same draft returns what the first did.
C14_ValidatorsArePure ==
    [][ret'.op \in {"validate_all", "is_complete"}
       => /\ campaign_data' = campaign_data
          /\ conversation_history' = conversation_history
          /\ credentials' = credentials
          /\ credentials_file' = credentials_file
          /\ mock_access_token' = mock_access_token
          /\ ret'.value = IF ret'.op = "validate_all"
                          THEN validate_all(campaign_data)
                          ELSE is_complete(campaign_data)
          /\ (ret.op = ret'.op => ret'.value = ret.value)]_vars

\* validate_all found the missing music of a Conversions draft and left the
\* draft's music_status at not_requested.
C14_Witness ==
    /\ ret.op = "validate_all"
    /\ campaign_data.objective = "Conversions"
    /\ campaign_data.music_id = None
    /\ campaign_data.music_status = "not_requested"
    /\ IssuesOn(ret.value, "music_id") # {}

-----------------------------------------------------------------------------
(* The submission error interpreter on its own: every error response over  *)
(* the codes and messages below, with _interpret_submission_error applied. *)

\* 500 in the digits U+06F5 and U+06F0.
PERSIAN_500 == "۵۰۰"

\* The code of a response: an int, a str, null, or no code at all.
ErrorCodes ==
    {PyInt(n) : n \in {1, 400, 429, 499, 500, 503, 40001, 40100, 40104, 40300}}
        \cup {PyStr(t) : t \in {"", "429", "500", "40300", "E_SERVER", "-1",
                                 "+500", " 500 ", "5_00", "5__00", "_500",
                                 "500" \o VT, "500" \o FS, "500" \o NBSP,
                                 NEL \o "500", PERSIAN_500}}
        \cup {PyNone}

\* Its message: a text, null, or no message at all.
ErrorMessages ==
    {"", "Bad request", "No permission for ad creation",
     "Ad creation not available in your region", "Geo blocked",
     "Missing scope", "Music not found", None}

ErrorReports ==
    {[code |-> c, message |-> m] : c \in ErrorCodes, m \in ErrorMessages}
        \cup {[code |-> c] : c \in ErrorCodes}
        \cup {[message |-> m] : m \in ErrorMessages}
        \cup {EmptyDict}

\* TikTokAPIClient._interpret_submission_error(error_response)
InterpretSubmissionError ==
    /\ ret.op = "error_response"
    /\ ret' = [op |-> "interpret_submission_error",
               error_response |-> ret.error_response,
               result |-> interpret_submission_error(ret.error_response)]
    /\ UNCHANGED <<uploaded_music, callback, campaign_data, conversation_history, turns, tokenVars,
                   use_mock, now, ticks, running>>

InitErrors ==
    /\ campaign_data = InitialCampaignData
    /\ conversation_history = <<>>
    /\ turns = 0
    /\ credentials_file = NoFile
    /\ credentials = NoDict
    /\ use_mock = FALSE
    /\ mock_access_token = None
    /\ uploaded_music = NoUploads
    /\ callback = NoCallback
    /\ now = 0
    /\ ticks = 0
    /\ running = TRUE
    /\ \E r \in ErrorReports : ret = [op |-> "error_response", error_response |-> r]

NextErrors == InterpretSubmissionError

SpecErrors == InitErrors /\ [][NextErrors]_vars

\* The code of an error response as a number, when it has one.
ReportedCode(r) ==
    IF "code" \in DOMAIN r /\ "int" \in DOMAIN r.code THEN r.code.int ELSE -1

\* C17 as stated: for every error response the interpreter returns a
\* non-empty text and never raises; the text is the fixed explanation for
\* the codes 40100, 429 and 500 and above, and carries the platform's message
\* for 40300 and for a code it does not recognize.
C17_Original ==
    ret.op = "interpret_submission_error" =>
        LET r == ret.error_response
            code == ReportedCode(r)
        IN  /\ ret.result.raised = None
            /\ ret.result.value # None
            /\ ret.result.value # ""
            /\ code = 40100 =>
                ret.result.value = "Your access token is invalid or expired. Let me help you re-authenticate."
            /\ code = 429 =>
                ret.result.value = "TikTok is rate limiting requests. Let's wait a moment and try again."
            /\ (code >= 500 /\ code \notin {40100, 40104, 40300}) =>
                ret.result.value = "TikTok's API is experiencing issues. Would you like to retry or save as draft?"
            /\ (code = 40300 /\ "message" \in DOMAIN r /\ r.message # None) =>
                ret.result.value = "Invalid music: " \o r.message
            /\ (code \in 0..499 /\ code # 429 /\ "message" \in DOMAIN r /\ r.message # None) =>
                ret.result.value = "Submission failed: " \o r.message

-----------------------------------------------------------------------------
(* Properties of the conversation, checked under Spec *)

\* A turn, whether it ended by itself or was cut by Ctrl-C.
TurnOps == {"process_user_input", "keyboard_interrupt"}

\* The requests of the last turn that asked the platform to create an ad.
AdRequests ==
    {i \in 1..Len(ret.calls) : ret.calls[i].api \in {"ad/create", "mock/create_ad"}}

\* C1: create_ad is invoked, and an ad request reaches the platform, only in
\* a turn whose next action is submit and whose draft, as it stands after the
\* turn's merge, has no issue for validate_all; a submit turn whose draft has
\* an issue returns the formatted rejection, invokes no client operation and
\* sends the platform nothing.
C1_SubmitOnlyWhenValid ==
    ret.op \in TurnOps =>
        /\ ("create_ad" \in Range(ret.invoked) \/ AdRequests # {})
            => /\ ret.next_action = "submit"
               /\ validate_all(campaign_data) = <<>>
        /\ (ret.next_action = "submit" /\ validate_all(campaign_data) # <<>>)
            => /\ ret.op = "process_user_input"
               /\ ret.raised = None
               /\ ret.value = "Cannot submit - please fix these issues:\n"
                    \o format_validation_errors(validate_all(campaign_data))
               /\ ret.invoked = <<>>
               /\ ret.calls = <<>>

\* A submit turn on a valid draft invoked create_ad and the ad request
\* reached the platform.
C1_Witness ==
    /\ ret.op = "process_user_input"
    /\ ret.next_action = "submit"
    /\ ret.invoked = <<"create_ad">>
    /\ AdRequests # {}
    /\ ret.raised = None

\* The requests of the last turn that the platform did not answer.
Unanswered ==
    {i \in 1..Len(ret.calls) : ret.calls[i].answered = "transport_error"}

\* C16 as stated: a turn in which a music-validation or ad-creation request
\* fails in transport still completes, and returns a text for the user.
C16_Original ==
    (/\ ret.op = "process_user_input"
     /\ \E i \in Unanswered : ret.calls[i].api \in {"music/info", "ad/create"})
        => /\ ret.raised = None
           /\ ret.value # None
           /\ ret.value # ""
           /\ running

\* The step is a turn in which the submit gate rejected the draft.
GateRejects ==
    /\ ret'.op = "process_user_input"
    /\ ret'.next_action = "submit"
    /\ ret'.invoked = <<>>

\* The step is a turn in which the platform was asked about the draft's music
\* and did not report it valid: it answered with an error or not at all.  A
\* request that Ctrl-C cut has no result.
MusicValidationFails ==
    /\ ret'.op \in TurnOps
    /\ ret'.next_action = "validate_music"
    /\ \E i \in 1..Len(ret'.calls) :
            /\ ret'.calls[i].api \in {"music/info", "mock/validate_music"}
            /\ ret'.calls[i].answered \in {"error", "transport_error"}

\* The fields of the draft, music_status aside.
DraftFields == {"campaign_name", "objective", "ad_text", "cta", "music_id"}

\* C21 as stated: after a turn in which the submit gate rejects the draft or
\* a music validation fails, every draft field other than music_status holds
\* the value it had after the turn's merge.
C21_Original ==
    [][(GateRejects \/ MusicValidationFails)
       => \A k \in DraftFields :
            campaign_data'[k] = MergedDraft(ret'.llm)[k]]_agentVars

\* C21, amended: a turn in which the submit gate rejects the draft leaves the
\* draft exactly as the turn's merge made it; a turn in which a music
\* validation fails leaves campaign_name, objective, ad_text and cta as the
\* merge made them, and sets music_id to null and music_status to 'error'.
C21_DraftKeptExceptFailedMusic ==
    [][/\ GateRejects => campaign_data' = MergedDraft(ret'.llm)
       /\ MusicValidationFails =>
            /\ \A k \in DraftFields \ {"music_id"} :
                    campaign_data'[k] = MergedDraft(ret'.llm)[k]
            /\ Truthy(MergedDraft(ret'.llm).music_id)
            /\ campaign_data'.music_id = None
            /\ campaign_data'.music_status = "error"]_agentVars

\* The submit gate rejected a draft whose campaign name is too short, and the
\* name is still in the draft.
C21_Witness ==
    /\ ret.op = "process_user_input"
    /\ ret.next_action = "submit"
    /\ ret.invoked = <<>>
    /\ ret.raised = None
    /\ campaign_data.campaign_name = "Ab"
    /\ IssuesOn(validate_all(campaign_data), "campaign_name") # {}
\* The step is a turn in which the platform reported the music id the draft
\* now holds valid.
MusicValidationSucceeds ==
    /\ ret'.op \in TurnOps
    /\ ret'.next_action = "validate_music"
    /\ \E i \in 1..Len(ret'.calls) :
            /\ ret'.calls[i].api \in {"music/info", "mock/validate_music"}
            /\ ret'.calls[i].answered = "success"
            /\ ret'.calls[i].music_id = campaign_data'.music_id

\* The step got no result about a music id from the platform.
NoMusicValidation ==
    \/ ret'.op \notin TurnOps
    \/ \A i \in 1..Len(ret'.calls) :
            \/ ret'.calls[i].api \notin {"music/info", "mock/validate_music"}
            \/ ret'.calls[i].answered = "interrupted"

\* C22 as stated: music_status is 'validated' only if the most recent music
\* validation succeeded for the music_id the draft holds, and 'error' only if
\* the most recent music validation failed.  Step by step: a draft is
\* 'validated' after a step that validated its music_id, or after a step
\* without a validation that found it 'validated' and left its music_id; it
\* is 'error' after a step whose validation failed, or after a step without
\* a validation that found it 'error'.
C22_Original ==
    [][/\ campaign_data'.music_status = "validated" =>
            \/ MusicValidationSucceeds
            \/ /\ NoMusicValidation
               /\ campaign_data.music_status = "validated"
               /\ campaign_data'.music_id = campaign_data.music_id
       /\ campaign_data'.music_status = "error" =>
            \/ MusicValidationFails
            \/ /\ NoMusicValidation
               /\ campaign_data.music_status = "error"]_agentVars

\* JSON but not an object.
NotARecord(llm) == AgentResponse(llm).parsed.type # "dict"

\* C8 as stated: a turn whose model answer does not parse into a record
\* returns the fixed apology, leaves the draft unchanged, sends the platform
\* nothing and returns normally, so that the conversation goes on.
C8_Original ==
    [][(ret'.op = "process_user_input" /\ NotARecord(ret'.llm))
       => /\ ret'.raised = None
          /\ ret'.value = APOLOGY
          /\ campaign_data' = campaign_data
          /\ ret'.calls = <<>>
          /\ running']_vars

-----------------------------------------------------------------------------
(* Music validation inside a turn *)

\* The step is a turn that dispatched to _handle_music_validation.
ValidateMusicTurn ==
    /\ ret'.op = "process_user_input"
    /\ ret'.next_action = "validate_music"

\* The music-validation requests the step's turn issued to the platform.
MusicCalls ==
    SelectSeq(ret'.calls,
              LAMBDA call : call.api \in {"music/info", "mock/validate_music"})

\* The step's turn asked the model once more, with the music error context
\* after the last entries of the history.
ReinvokedWithMusicError ==
    /\ Len(ret'.llm_calls) = 2
    /\ ret'.llm_calls[2] =
            Append(LastEntries(Append(conversation_history,
                                      Message("user", ret'.llm_calls[1][Len(ret'.llm_calls[1])].content)),
                               HISTORY_WINDOW),
                   Message("user", MUSIC_VALIDATION_PROMPT))

\* What a validate_music turn with a music id does once the platform was
\* asked: one request for the draft's music id; 'validated' with the id kept
\* when it answers valid, else 'error' with the id cleared and the model
\* re-invoked once with the error context.
ValidatedOnce(merged) ==
    /\ Len(MusicCalls) = 1
    /\ MusicCalls[1].music_id = merged.music_id
    /\ IF MusicCalls[1].answered = "success"
       THEN /\ campaign_data' = [merged EXCEPT !.music_status = "validated"]
            /\ Len(ret'.llm_calls) = 1
       ELSE /\ campaign_data' = [merged EXCEPT !.music_status = "error",
                                               !.music_id = None]
            /\ ReinvokedWithMusicError

\* C23 as stated: a validate_music turn whose draft has a non-empty music_id
\* calls the platform music validation exactly once, then sets music_status
\* to 'validated' (music_id kept) or to 'error' with music_id cleared and the
\* model re-invoked once; with no music_id no platform call is made and the
\* draft is unchanged.
C23_Original ==
    [][ValidateMusicTurn =>
        \E merged \in {MergedDraft(ret'.llm)} :
            IF Truthy(merged.music_id)
            THEN ValidatedOnce(merged)
            ELSE MusicCalls = <<>> /\ campaign_data' = merged]_agentVars

\* C23: a validate_music turn whose draft has a non-empty music_id either
\* gets no token, and then raises the OAuth error with no music request
\* issued and the draft as merged, which happens only when the stored
\* credential is not valid; or it calls the platform music validation exactly
\* once and sets music_status to 'validated' (music_id kept) when the answer
\* is valid, and otherwise to 'error' with music_id cleared and the model
\* re-invoked once with the error context.  With no music_id no platform
\* call is made, the model is not re-invoked and the draft is as merged.
C23_MusicValidatedOnceWithToken ==
    [][ValidateMusicTurn =>
        \E merged \in {MergedDraft(ret'.llm)} :
            IF ~Truthy(merged.music_id)
            THEN /\ ret'.calls = <<>>
                 /\ Len(ret'.llm_calls) = 1
                 /\ campaign_data' = merged
            ELSE IF MusicCalls = <<>>
            THEN /\ ret'.raised = "OAuthError"
                 /\ ~Valid(credentials, now)
                 /\ campaign_data' = merged
                 /\ Len(ret'.llm_calls) = 1
            ELSE ValidatedOnce(merged)]_agentVars

\* A turn validated a music id, the platform did not accept it, and the
\* draft lost the id.
C23_Witness ==
    /\ ret.op = "process_user_input"
    /\ ret.next_action = "validate_music"
    /\ \E i \in 1..Len(ret.calls) :
            /\ ret.calls[i].api \in {"music/info", "mock/validate_music"}
            /\ ret.calls[i].answered = "error"
            /\ ret.calls[i].music_id = "music_not_found"
    /\ ret.raised = None
    /\ Len(ret.llm_calls) = 2
    /\ campaign_data.music_status = "error"
    /\ campaign_data.music_id = None

-----------------------------------------------------------------------------
(* The merge of collected_data into the draft *)

\* The model's answer parsed to an object.
Parses(llm) == AgentResponse(llm).error = None /\ AgentResponse(llm).parsed.type = "dict"

\* The fields of the collected_data object the model's answer returned; none
\* when the answer has no such object.
Collected(llm) ==
    LET parsed == AgentResponse(llm).parsed.value
    IN  IF "collected_data" \in DOMAIN parsed /\ parsed.collected_data.type = "dict"
        THEN parsed.collected_data.value
        ELSE EmptyDict

\* Field k of the draft holds the value the step's turn collected for it, or
\* else the value it had before.
FieldMerged(k) ==
    IF k \in DOMAIN Collected(ret'.llm)
    THEN campaign_data'[k] = Collected(ret'.llm)[k]
    ELSE k \in DOMAIN campaign_data /\ campaign_data'[k] = campaign_data[k]

\* The step is a turn whose answer parsed.
ParsedTurn == ret'.op = "process_user_input" /\ Parses(ret'.llm)

\* C24 as stated: after a turn whose model output parses, every draft field
\* present in the returned collected_data holds the returned value, null
\* included, and every other draft field keeps the value it had before the
\* turn.
C24_Original ==
    [][ParsedTurn => \A k \in DOMAIN campaign_data' : FieldMerged(k)]_agentVars

\* C24: after a turn whose model output parses, every draft field other than
\* music_id and music_status holds the value returned in collected_data if
\* one was returned, null included, and else the value it had before; so do
\* music_id and music_status unless the turn asked the platform to validate
\* the music, and then music_status is 'validated' with music_id merged, or
\* music_status is 'error' with music_id null.
C24_CollectedDataMerged ==
    [][ParsedTurn =>
        /\ \A k \in DOMAIN campaign_data' \ {"music_id", "music_status"} :
                FieldMerged(k)
        /\ IF ValidateMusicTurn /\ MusicCalls # <<>>
           THEN \/ /\ campaign_data'.music_status = "validated"
                   /\ FieldMerged("music_id")
                \/ /\ campaign_data'.music_status = "error"
                   /\ campaign_data'.music_id = None
           ELSE FieldMerged("music_id") /\ FieldMerged("music_status")]_agentVars

\* A turn returned a new music_id and a null cta for a draft that had a cta:
\* the cta is gone, the music_id is the new one and the name is the old one.
C24_Witness ==
    /\ ret.op = "process_user_input"
    /\ ret.llm = DocSwitchMusic
    /\ campaign_data.cta = None
    /\ campaign_data.music_id = "music_456"
    /\ campaign_data.campaign_name = "Summer Sale"

-----------------------------------------------------------------------------
(* What a call to the model is sent *)

\* s is the sequence of the last Len(s) entries of h.
IsTail(s, h) ==
    /\ Len(s) <= Len(h)
    /\ \A j \in 1..Len(s) : s[j] = h[Len(h) - Len(s) + j]

\* h starts with the entries of g, in order.
Extends(h, g) ==
    /\ Len(g) <= Len(h)
    /\ \A j \in 1..Len(g) : h[j] = g[j]

\* The messages of a call are the most recent entries of the history h, ten
\* of them or all if there are fewer.
SendsWindow(messages, h) ==
    /\ Len(messages) <= 10
    /\ IsTail(messages, h)
    /\ Len(messages) = 10 \/ Len(messages) = Len(h)

\* C25: every call to the model is sent, after the system prompt, the 10 most
\* recent history entries in their order (all of them while there are fewer);
\* in a turn's first call the last one is the user's input, and a turn's
\* second call is sent the same entries followed by the error context, which
\* is no history entry.  In every step but a reset the stored history keeps
\* its entries and only gains new ones at the end.
C25_ModelSeesLastTenEntries ==
    [][/\ ret'.op \in TurnOps =>
            \E h \in {Append(conversation_history,
                             Message("user", ret'.user_input))} :
                /\ Len(ret'.llm_calls) \in {1, 2}
                /\ SendsWindow(ret'.llm_calls[1], h)
                /\ ret'.llm_calls[1][Len(ret'.llm_calls[1])]
                        = Message("user", ret'.user_input)
                /\ Len(ret'.llm_calls) = 2 =>
                    \E sent \in {ret'.llm_calls[2]} :
                        /\ SendsWindow(SubSeq(sent, 1, Len(sent) - 1), h)
                        /\ sent[Len(sent)].role = "user"
                        /\ sent[Len(sent)].content
                                \in {MUSIC_VALIDATION_PROMPT,
                                     ERROR_INTERPRETATION_PROMPT}
       /\ ret'.op # "reset" => Extends(conversation_history', conversation_history)
      ]_agentVars

\* The stored history is longer than the window and the last turn called the
\* model twice: with the last ten entries, and with them and the error
\* context.
C25_Witness ==
    /\ ret.op = "process_user_input"
    /\ Len(conversation_history) > HISTORY_WINDOW
    /\ Len(ret.llm_calls) = 2
    /\ Len(ret.llm_calls[1]) = 10
    /\ Len(ret.llm_calls[2]) = 11
    /\ ret.llm_calls[1][1] # conversation_history[1]

-----------------------------------------------------------------------------
(* Reset *)

\* C26: after reset, whatever turns preceded it, the draft is the initial
\* empty draft with music_status 'not_requested' and the history is empty;
\* the stored credential, its file and the mock token are as they were, and
\* the operation records no call to the model or to the platform.
C26_ResetRestoresInitialDraft ==
    [][ret'.op = "reset" =>
        /\ campaign_data' = [campaign_name |-> None, objective |-> None,
                             ad_text |-> None, cta |-> None, music_id |-> None,
                             music_status |-> "not_requested"]
        /\ conversation_history' = <<>>
        /\ credentials' = credentials
        /\ credentials_file' = credentials_file
        /\ mock_access_token' = mock_access_token
        /\ "calls" \notin DOMAIN ret'
        /\ "llm_calls" \notin DOMAIN ret']_<<agentVars, managerView>>

\* A reset after an authorization and five turns: the draft and the history
\* are empty again and the credential is still stored.
C26_Witness ==
    /\ ret.op = "reset"
    /\ turns = MaxChatTurns - 1
    /\ credentials # NoDict
    /\ campaign_data.campaign_name = None
    /\ campaign_data.music_status = "not_requested"
    /\ conversation_history = <<>>

-----------------------------------------------------------------------------
(* The history after a turn *)

\* C29 as stated: after every turn that returned, whatever its next-action,
\* the history has grown by exactly two entries: the user's input followed by
\* the assistant text returned to the user.
C29_Original ==
    [][ret'.op = "process_user_input" /\ ret'.raised = None =>
        conversation_history' =
            conversation_history
                \o <<Message("user", ret'.user_input),
                     Message("assistant", ret'.value)>>]_agentVars

-----------------------------------------------------------------------------
(* The client's operations and the token *)

\* The step is a client operation.
ClientOperation == ret'.op \in {"validate_music", "upload_music", "create_ad"}

\* The requests the step's operation issued to the platform, real or mock.
PlatformRequests ==
    SelectSeq(ret'.calls,
              LAMBDA call : call.api \in {"music/info", "mock/validate_music",
                                          "file/music/upload", "mock/upload_music",
                                          "ad/create", "mock/create_ad"})

\* C28 as stated: every music-validation, music-upload or ad-creation
\* request issued to the platform carries the token get_access_token gave in
\* that same operation; when no valid credential is available (none stored,
\* or an expired one whose refresh failed) the operation raises the OAuth
\* error and no platform request is issued.
C28_Original ==
    [][ClientOperation =>
        /\ \A i \in 1..Len(PlatformRequests) :
                /\ ret'.token.raised = None
                /\ PlatformRequests[i].access_token = ret'.token.value
        /\ credentials = NoDict => ret'.token.raised = "OAuthError"
        /\ ret'.token.raised # None =>
                /\ ret'.raised = "OAuthError"
                /\ PlatformRequests = <<>>]_managerView

\* C30 as stated: with a valid credential stored by a successful exchange,
\* also one whose response supplied no advertiser_ids, and a draft that
\* passed the submit gate, create_ad raises nothing and returns a result
\* whose success is true or false.
C30_Original ==
    [][ret'.op = "create_ad" /\ Valid(credentials, now) =>
        /\ ret'.raised = None
        /\ ret'.value.success \in BOOLEAN]_managerView

-----------------------------------------------------------------------------
(* The wait for the authorization callback *)

\* What the wait hands back is the timeout error or a code.
TimedOut == OAuthError("TIMEOUT")

\* C27, step by step: the wait polls at most CALLBACK_TIMEOUT times; the
\* recorded code changes only to the code of a request that carries a code
\* and no error; the wait hands back a result once, and it is the recorded
\* code if one was recorded when the wait ended and else the timeout error.
C27_Steps ==
    [][/\ callback'.elapsed <= CALLBACK_TIMEOUT
       /\ callback'.received_code # callback.received_code =>
            /\ ~Truthy(callback'.request.error)
            /\ Truthy(callback'.request.code)
            /\ callback'.received_code = callback'.request.code
       /\ callback'.results # callback.results =>
            /\ callback.results = <<>>
            /\ callback'.pc = "done"
            /\ callback'.results =
                    <<IF callback.received_code = None THEN TimedOut
                      ELSE [returned |-> callback.received_code]>>
       /\ callback.pc = "done" => callback'.pc = "done"
      ]_<<callback.pc, callback.elapsed, callback.received_code>>

\* C27: the wait for the authorization callback always ends, after at most
\* 300 one-second polls, and hands back exactly one result: the recorded
\* authorization code if the listener recorded one before the wait ended, and
\* else the timeout OAuth error; a request with an error or without a code
\* never changes the recorded code.
C27_CallbackWaitTerminates ==
    /\ C27_Steps
    /\ <>[](callback.pc = "done" /\ Len(callback.results) = 1)

\* The wait timed out after 300 polls although requests arrived: they carried
\* an error.
C27_Witness ==
    /\ callback.pc = "done"
    /\ callback.elapsed = CALLBACK_TIMEOUT
    /\ callback.results = <<TimedOut>>
    /\ callback.request = [code |-> "auth_code_1", error |-> "access_denied"]

=============================================================================
